---- MODULE Spec2Model ----
(***************************************************************************)
(* Model of the Arch Linux installer (arch-installer/main.py and utils/):  *)
(* the curses dialogs of utils/tui.py, the phase sequence of               *)
(* ArchInstaller.run and the external commands issued by the disk, chroot, *)
(* software and dotfiles collaborators.                                    *)
(*                                                                         *)
(* A text value is a sequence of atoms: an atom is either the blank " " or *)
(* a blank-free word, so that str.strip() and Python truthiness are        *)
(* computed on the value and not assumed.                                  *)
(***************************************************************************)
EXTENDS Integers, Sequences, FiniteSets, TLC

\* ------------------------------------------------------------------ bounds
MaxDisks == 1        \* lsblk reports at most this many disks
MaxAttempts == 2     \* rejected password rounds explored in get_passwords()
MaxStream == 6       \* entries of a hidden-input stream fed to one credential
MaxOptions == 3      \* options of a menu shown on its own
MaxKeys == 4         \* key presses fed to one menu or confirmation
MaxSubmits == 2      \* submissions fed to one text input
GridHeight == 2      \* rows of the screen safe_addstr is tried on
GridWidth == 4       \* columns of the screen safe_addstr is tried on
MaxText == 5         \* characters of a text handed to safe_addstr
MaxHeaders == 3      \* header draws followed on one render surface
MaxWindowHeight == 21   \* rows of the terminal a long menu is shown on
MaxWindowOptions == 17  \* options of a long menu

\* ------------------------------------------------------- program constants
MinHeight == 20
MinWidth == 60
InfoStartY == 4
InfoBottomMargin == 2

\* ------------------------------------------------------------ input domains
Heights == {MinHeight - 1, MinHeight}
Widths == {MinWidth - 1, MinWidth}
DiskNames == <<"/dev/sda", "/dev/nvme0n1", "/dev/sdb", "/dev/mmcblk0">>
MenuKeys == {"UP", "k", "DOWN", "j", "ENTER", "SPACE", "q", "ESC", "x"}
ConfirmKeys == {"LEFT", "h", "RIGHT", "l", "ENTER", "SPACE", "q", "ESC", "x"}
Typed == {<<>>, <<" ">>, <<" ", "x", " ">>}
Passwords == {<<>>, <<"a">>, <<"b">>}

None == <<"<None>">>
\* A truth test that every value passes.
Truthy_Always(v) == TRUE

\* bool(v) of a text value or None.
Truthy(v) == v # None /\ v # <<>>

\* -------------------------------------------------------------- str.strip()
RECURSIVE LStrip(_)
LStrip(s) == IF s # <<>> /\ Head(s) = " " THEN LStrip(Tail(s)) ELSE s

RECURSIVE RStrip(_)
RStrip(s) ==
    IF s # <<>> /\ s[Len(s)] = " " THEN RStrip(SubSeq(s, 1, Len(s) - 1)) ELSE s

Strip(s) == RStrip(LStrip(s))

Min(a, b) == IF a < b THEN a ELSE b

VARIABLES
    pc,         \* where the control thread is blocked or about to call out
    stdscr,     \* TUI.stdscr is set
    termMode,   \* "cooked" or "curses": the mode the terminal is in
    height,     \* TUI.height
    width,      \* TUI.width
    screen,     \* what the last draws left on the character grid
    drew,       \* a draw call has been made on the render surface
    stdout,     \* plain text the top level printed
    exc,        \* the exception run() caught, if any
    exitCode,   \* process exit status, -1 while running
    config,     \* ArchInstaller.config
    selected,   \* the running dialog's selected index
    confirm_key, \* the key that ended the last confirmation, and the highlight then
    disks,      \* result of get_available_disks()
    pw,         \* the password entered in the current round
    confirm_password, \* the confirmation entered in the current round
    root_password, \* get_passwords(): the accepted root password
    attempts,   \* rejected rounds of get_passwords() so far
    steps,      \* the running phase's step list
    progress,   \* the step list last rendered by show_progress
    entered,    \* phases entered, in order
    results,    \* results[i] is what phase entered[i] returned
    calls,      \* invocations of the installation collaborators, in order
    cmds,       \* external commands the current phase ran through run_command
    dlg         \* a TUI dialog or drawing call exercised on its own

vars == <<pc, stdscr, termMode, height, width, screen, drew, stdout, exc, exitCode,
          config, selected, confirm_key, disks, pw, confirm_password, root_password,
          attempts, steps, progress, entered, results, calls, cmds, dlg>>

tuiVars == <<stdscr, termMode, height, width>>
logVars == <<calls, cmds>>
pwVars == <<pw, confirm_password, root_password, attempts>>
stepVars == <<steps, progress>>

\* ------------------------------------------------------------ render surface
\* A screen item: what was drawn (kind), its text and its style.  Texts are
\* sequences of atoms so that collected values can be embedded in them.
Item(kind, text, style) == [kind |-> kind, text |-> text, style |-> style]

Line(sev, text) == [sev |-> sev, text |-> text]
Plain(text) == Line("", <<text>>)

\* TUI.draw_header: clears the grid, then draws the title bar and separator.
DrawHeader(title) ==
    {Item("header", <<title>>, "bold"), Item("separator", <<>>, "normal")}

\* TUI.draw_footer
DrawFooter(instructions) == {Item("footer", <<instructions>>, "normal")}

\* show_info_screen: the style a severity prefix maps to.
SeverityStyle(sev) ==
    CASE sev = "SUCCESS: " -> "success"
      [] sev = "ERROR: " -> "error"
      [] sev = "WARNING: " -> "warning"
      [] sev = "INFO: " -> "info"
      [] OTHER -> "normal"

\* show_info_screen: lines at or below row height - 2 are not drawn.
InfoVisible(lines, h) ==
    SubSeq(lines, 1, Min(Len(lines), h - InfoBottomMargin - InfoStartY))

ShowInfoScreen(title, lines, h, waitForKey) ==
    DrawHeader(title)
    \cup {Item("line", InfoVisible(lines, h)[i].text,
               SeverityStyle(InfoVisible(lines, h)[i].sev)) :
            i \in 1..Len(InfoVisible(lines, h))}
    \cup (IF waitForKey THEN DrawFooter("Press any key to continue...") ELSE {})

\* show_confirmation: one render of the loop.
ConfirmOptions == <<"Yes", "No">>

ShowConfirmation(title, message, sel) ==
    DrawHeader(title)
    \cup {Item("message", message, "normal")}
    \cup {Item("option", <<ConfirmOptions[i + 1]>>,
               IF i = sel THEN "selected" ELSE "normal") : i \in 0..1}
    \cup DrawFooter("Use arrows/hl, Enter to select")

\* show_confirmation: the highlighted option at the first render.
ConfirmInitial(default) == IF default THEN 0 ELSE 1

\* A show_confirmation in which Enter accepts whatever is highlighted.
ConfirmStep_EnterAccepts(sel, key) ==
    IF key \in {"LEFT", "h"} /\ sel > 0
      THEN [done |-> FALSE, sel |-> sel - 1, value |-> FALSE]
    ELSE IF key \in {"RIGHT", "l"} /\ sel < Len(ConfirmOptions) - 1
      THEN [done |-> FALSE, sel |-> sel + 1, value |-> FALSE]
    ELSE IF key = "ENTER"
      THEN [done |-> TRUE, sel |-> sel, value |-> TRUE]
    ELSE IF key \in {"q", "ESC"}
      THEN [done |-> TRUE, sel |-> sel, value |-> FALSE]
    ELSE [done |-> FALSE, sel |-> sel, value |-> FALSE]

\* A show_confirmation in which q and ESC answer like Enter.
ConfirmStep_EscapeAccepts(sel, key) ==
    IF key \in {"LEFT", "h"} /\ sel > 0
      THEN [done |-> FALSE, sel |-> sel - 1, value |-> FALSE]
    ELSE IF key \in {"RIGHT", "l"} /\ sel < Len(ConfirmOptions) - 1
      THEN [done |-> FALSE, sel |-> sel + 1, value |-> FALSE]
    ELSE IF key \in {"ENTER", "q", "ESC"}
      THEN [done |-> TRUE, sel |-> sel, value |-> (sel = 0)]
    ELSE [done |-> FALSE, sel |-> sel, value |-> FALSE]

\* A show_confirmation in which Space selects as it does in show_menu.
ConfirmStep_SpaceSelects(sel, key) ==
    IF key \in {"LEFT", "h"} /\ sel > 0
      THEN [done |-> FALSE, sel |-> sel - 1, value |-> FALSE]
    ELSE IF key \in {"RIGHT", "l"} /\ sel < Len(ConfirmOptions) - 1
      THEN [done |-> FALSE, sel |-> sel + 1, value |-> FALSE]
    ELSE IF key \in {"ENTER", "SPACE"}
      THEN [done |-> TRUE, sel |-> sel, value |-> (sel = 0)]
    ELSE IF key \in {"q", "ESC"}
      THEN [done |-> TRUE, sel |-> sel, value |-> FALSE]
    ELSE [done |-> FALSE, sel |-> sel, value |-> FALSE]

\* show_confirmation: one key press.  value is TRUE/FALSE once done.
ConfirmStep(sel, key) ==
    IF key \in {"LEFT", "h"} /\ sel > 0
      THEN [done |-> FALSE, sel |-> sel - 1, value |-> FALSE]
    ELSE IF key \in {"RIGHT", "l"} /\ sel < Len(ConfirmOptions) - 1
      THEN [done |-> FALSE, sel |-> sel + 1, value |-> FALSE]
    ELSE IF key = "ENTER"
      THEN [done |-> TRUE, sel |-> sel, value |-> (sel = 0)]
    ELSE IF key \in {"q", "ESC"}
      THEN [done |-> TRUE, sel |-> sel, value |-> FALSE]
    ELSE [done |-> FALSE, sel |-> sel, value |-> FALSE]

\* show_menu: the visible window [start_idx, end_idx) for a selection.
MenuMaxVisible(h) == h - 6

MenuStartIdx(n, sel, h) ==
    IF n > MenuMaxVisible(h)
      THEN IF sel < MenuMaxVisible(h) \div 2 THEN 0
           ELSE IF sel > n - MenuMaxVisible(h) \div 2 THEN n - MenuMaxVisible(h)
           ELSE sel - MenuMaxVisible(h) \div 2
      ELSE 0

\* A window that ends half a screen after its start.
MenuEndIdx_HalfWindow(n, sel, h) ==
    IF n > MenuMaxVisible(h)
      THEN Min(MenuStartIdx(n, sel, h) + MenuMaxVisible(h) \div 2, n)
      ELSE n

MenuEndIdx(n, sel, h) ==
    IF n > MenuMaxVisible(h)
      THEN Min(MenuStartIdx(n, sel, h) + MenuMaxVisible(h), n)
      ELSE n

ShowMenu(title, options, sel, h) ==
    DrawHeader(title)
    \cup {Item("option", <<options[i + 1]>>,
               IF i = sel THEN "selected" ELSE "normal") :
            i \in MenuStartIdx(Len(options), sel, h)
                  ..(MenuEndIdx(Len(options), sel, h) - 1)}
    \cup (IF Len(options) > MenuMaxVisible(h) /\ MenuStartIdx(Len(options), sel, h) > 0
            THEN {Item("indicator", <<"up">>, "normal")} ELSE {})
    \cup (IF Len(options) > MenuMaxVisible(h)
             /\ MenuEndIdx(Len(options), sel, h) < Len(options)
            THEN {Item("indicator", <<"down">>, "normal")} ELSE {})
    \cup DrawFooter("Use arrows/jk, Enter to select, q to quit")

\* A show_menu whose highlight wraps round at both ends.
MenuStep_Wraps(n, sel, key) ==
    IF key \in {"UP", "k"}
      THEN [done |-> FALSE, sel |-> (sel + n - 1) % n, value |-> 0]
    ELSE IF key \in {"DOWN", "j"}
      THEN [done |-> FALSE, sel |-> (sel + 1) % n, value |-> 0]
    ELSE IF key \in {"ENTER", "SPACE"}
      THEN [done |-> TRUE, sel |-> sel, value |-> sel]
    ELSE IF key \in {"q", "ESC"}
      THEN [done |-> TRUE, sel |-> sel, value |-> -1]
    ELSE [done |-> FALSE, sel |-> sel, value |-> 0]

\* A show_menu in which q and ESC select like Enter.
MenuStep_EscapeSelects(n, sel, key) ==
    IF key \in {"UP", "k"} /\ sel > 0
      THEN [done |-> FALSE, sel |-> sel - 1, value |-> 0]
    ELSE IF key \in {"DOWN", "j"} /\ sel < n - 1
      THEN [done |-> FALSE, sel |-> sel + 1, value |-> 0]
    ELSE IF key \in {"ENTER", "SPACE", "q", "ESC"}
      THEN [done |-> TRUE, sel |-> sel, value |-> sel]
    ELSE [done |-> FALSE, sel |-> sel, value |-> 0]

\* A show_menu in which Enter and Space always pick the first option.
MenuStep_ReturnsFirst(n, sel, key) ==
    IF key \in {"UP", "k"} /\ sel > 0
      THEN [done |-> FALSE, sel |-> sel - 1, value |-> 0]
    ELSE IF key \in {"DOWN", "j"} /\ sel < n - 1
      THEN [done |-> FALSE, sel |-> sel + 1, value |-> 0]
    ELSE IF key \in {"ENTER", "SPACE"}
      THEN [done |-> TRUE, sel |-> sel, value |-> 0]
    ELSE IF key \in {"q", "ESC"}
      THEN [done |-> TRUE, sel |-> sel, value |-> -1]
    ELSE [done |-> FALSE, sel |-> sel, value |-> 0]

\* show_menu: one key press.  value is the returned index (-1: cancelled).
MenuStep(n, sel, key) ==
    IF key \in {"UP", "k"} /\ sel > 0
      THEN [done |-> FALSE, sel |-> sel - 1, value |-> 0]
    ELSE IF key \in {"DOWN", "j"} /\ sel < n - 1
      THEN [done |-> FALSE, sel |-> sel + 1, value |-> 0]
    ELSE IF key \in {"ENTER", "SPACE"}
      THEN [done |-> TRUE, sel |-> sel, value |-> sel]
    ELSE IF key \in {"q", "ESC"}
      THEN [done |-> TRUE, sel |-> sel, value |-> -1]
    ELSE [done |-> FALSE, sel |-> sel, value |-> 0]

\* show_text_input: the screen while the text box is being edited.
ShowTextInput(title, prompt, default) ==
    DrawHeader(title)
    \cup {Item("prompt", <<prompt>>, "normal"), Item("field", <<"> ">>, "normal")}
    \cup (IF default # <<>>
            THEN {Item("hint", <<"Default: ">> \o default, "normal"),
                  Item("hint", <<"Press Enter for default, or type new value:">>,
                       "normal")}
            ELSE {})
    \cup DrawFooter("Enter text, Ctrl+G to finish")

\* A show_text_input that returns the edited text and forgets the default.
TextInputStep_KeepsEmpty(raw, default) ==
    [done |-> TRUE, value |-> Strip(raw)]

\* show_text_input: what one pass of the loop makes of the edited text.
\* done is FALSE when the loop goes round again.
TextInputStep(raw, default) ==
    LET stripped == Strip(raw)
        result == IF stripped = <<>> /\ default # <<>> THEN default ELSE stripped
    IN  [done |-> (result # <<>> \/ default = <<>>), value |-> result]

\* show_password_input: the screen drawn before curses is left.
ShowPasswordInput(title, prompt) ==
    DrawHeader(title)
    \cup {Item("prompt", prompt, "normal"),
          Item("hint", <<"Password will be hidden as you type">>, "normal"),
          Item("field", <<"> ">>, "normal")}
    \cup DrawFooter("Type password, Enter to finish")

\* show_progress: glyph and style per step status.
StatusGlyph(status) ==
    CASE status = "completed" -> "v"
      [] status = "current" -> ">"
      [] status = "error" -> "x"
      [] OTHER -> " "

StatusStyle(status) ==
    CASE status = "completed" -> "success"
      [] status = "current" -> "info"
      [] status = "error" -> "error"
      [] OTHER -> "normal"

ShowProgress(title, stepList) ==
    DrawHeader(title)
    \cup {Item(StatusGlyph(stepList[i].status), stepList[i].label,
               StatusStyle(stepList[i].status)) : i \in 1..Len(stepList)}

Step(label, status) == [label |-> <<label>>, status |-> status]

\* ------------------------------------------------------------- small helpers
Put(cfg, k, v) == [x \in DOMAIN cfg \cup {k} |-> IF x = k THEN v ELSE cfg[x]]

Has(cfg, k) == k \in DOMAIN cfg

Cmd(c, a) == [c |-> c, a |-> a]

Call(f, a, ok) == [f |-> f, a |-> a, ok |-> ok]

SetStep(stepList, i, label, status) == [stepList EXCEPT ![i] = Step(label, status)]

\* ------------------------------------------------------- exceptions and exit
\* An exception: its class, its message (with the numbers interpolated in
\* it) and where the control thread was when it was raised.
NoExc == [kind |-> "none", text |-> "", w |-> 0, h |-> 0, at |-> ""]
KeyboardInterrupt ==
    [kind |-> "KeyboardInterrupt", text |-> "", w |-> 0, h |-> 0, at |-> ""]
EOFError == [kind |-> "Exception", text |-> "", w |-> 0, h |-> 0, at |-> ""]

TooSmallText == "Terminal too small! Need at least 60x20, got"

\* A size check that also rejects a terminal of exactly the minimum size.
InitScreenError_Inclusive(h, w) ==
    IF h <= MinHeight \/ w <= MinWidth
      THEN [kind |-> "Exception", text |-> TooSmallText, w |-> w, h |-> h, at |-> ""]
      ELSE NoExc

\* TUI.init_screen: the minimum-size check and the exception it raises.
InitScreenError(h, w) ==
    IF h < MinHeight \/ w < MinWidth
      THEN [kind |-> "Exception", text |-> TooSmallText, w |-> w, h |-> h, at |-> ""]
      ELSE NoExc

\* ArchInstaller.run: which except clause handles e and what it does.
TopLevelHandler(e) ==
    IF e.kind = "KeyboardInterrupt" THEN "pass"
    ELSE IF e.text = TooSmallText THEN "print_too_small"
    ELSE "info_screen"

\* One print() line: fixed text, an interpolated name, the exception's numbers.
Printed(text, arg, e) == [text |-> text, arg |-> arg, w |-> e.w, h |-> e.h]

\* ArchInstaller.run: the plain-text diagnostic of the undersized terminal.
TooSmallReport(e) ==
    << Printed("TERMINAL TOO SMALL", "", NoExc),
       Printed("Error: ", e.text, e),
       Printed("Please resize your terminal window and try again.", "", NoExc),
       Printed("Minimum required size: 60 columns x 20 rows", "", NoExc) >>

UnexpectedLines(e) == <<Line("ERROR: ", <<e.text>>)>>

\* A cleanup that leaves the terminal as it finds it.
Cleanup_Skipped(scr, mode) == mode

\* TUI.cleanup: leaves curses mode when a screen was ever initialised.
Cleanup(scr, mode) == IF scr THEN "cooked" ELSE mode

\* main(): run() has returned, the interpreter falls off the end of main().
ExitStatus(e) == 0

\* run()'s finally clause followed by the return to main().
Finish(e, scr, mode) ==
    /\ pc' = "exited"
    /\ exc' = e
    /\ termMode' = Cleanup(scr, mode)
    /\ exitCode' = ExitStatus(e)

\* ArchInstaller.run: exception e leaves the try block with the terminal in
\* mode `mode`; the matching except clause runs, then (unless the error
\* screen waits for a key) the finally clause.
Raise(e, scr, mode, h) ==
    IF TopLevelHandler(e) = "info_screen"
      THEN /\ pc' = "unexpected_info"
           /\ exc' = [e EXCEPT !.at = pc]
           /\ termMode' = mode
           /\ screen' = ShowInfoScreen("Unexpected Error", UnexpectedLines(e), h, TRUE)
           /\ drew' = TRUE
           /\ UNCHANGED <<stdout, exitCode>>
      ELSE /\ Finish([e EXCEPT !.at = pc], scr, mode)
           /\ stdout' = IF TopLevelHandler(e) = "print_too_small"
                          THEN stdout \o TooSmallReport(e)
                          ELSE stdout
           /\ UNCHANGED <<screen, drew>>

\* A phase returned r to run().
Returned(r) == results' = Append(results, r)

\* ------------------------------------------------------------------- screens
WelcomeLines ==
    << Plain("Welcome to Arch Linux Installer!"),
       Plain(""),
       Plain("This installer will guide you through setting up Arch Linux with Hyprland"),
       Plain("Features:"),
       Plain("  Interactive menu navigation"),
       Plain("  Automatic system detection"),
       Plain("  Step-by-step installation process"),
       Plain("  Hyprland desktop environment setup"),
       Plain(""),
       Plain("!  WARNING: This will format your selected disk!") >>

SystemCheckSteps ==
    << Step("Checking internet connection...", "current"),
       Step("Synchronizing system clock...", "pending"),
       Step("Detecting system type...", "pending") >>

NoInternetLines ==
    << Line("ERROR: ", <<"No internet connection detected!">>),
       Plain("Please connect to the internet and try again.") >>

NoDisksLines == << Line("ERROR: ", <<"No disks found!">>) >>

DiskOptions(ds) == [i \in 1..Len(ds) |-> ds[i]]

DiskConfirmMessage(disk) ==
    <<"Selected disk: ", disk,
      "ALL DATA on this disk will be PERMANENTLY ERASED!", "Are you absolutely sure?">>

\* ArchInstaller(): an empty config, a TUI with no screen yet.
Constructed ==
    /\ pc = "init_screen"
    /\ stdscr = FALSE
    /\ termMode = "cooked"
    /\ height = 0
    /\ width = 0
    /\ screen = {}
    /\ drew = FALSE
    /\ stdout = <<>>
    /\ exc = NoExc
    /\ exitCode = -1
    /\ config = <<>>
    /\ selected = 0
    /\ confirm_key = [key |-> "", sel |-> -1]
    /\ disks = <<>>
    /\ pw = <<>>
    /\ confirm_password = <<>>
    /\ root_password = <<>>
    /\ attempts = 0
    /\ steps = <<>>
    /\ progress = <<>>
    /\ entered = <<>>
    /\ results = <<>>
    /\ calls = <<>>
    /\ cmds = <<>>

\* No dialog is being exercised on its own.
NoDialog == [kind |-> "none"]

Init ==
    /\ Constructed
    /\ dlg = NoDialog

\* --------------------------------------------------------------- run(): start
\* run(): tui.init_screen(), then welcome_screen() up to its first key wait;
\* on an undersized terminal the except/finally clauses of run().
InitScreen ==
    /\ pc = "init_screen"
    /\ \E h \in Heights, w \in Widths :
         /\ stdscr' = TRUE
         /\ height' = h
         /\ width' = w
         /\ IF InitScreenError(h, w).kind # "none"
              THEN /\ Raise(InitScreenError(h, w), TRUE, "curses", h)
                   /\ UNCHANGED entered
              ELSE /\ pc' = "welcome_info"
                   /\ termMode' = "curses"
                   /\ entered' = Append(entered, "Welcome")
                   /\ screen' = ShowInfoScreen("Welcome", WelcomeLines, h, TRUE)
                   /\ drew' = TRUE
                   /\ UNCHANGED <<stdout, exc, exitCode>>
    /\ UNCHANGED <<config, selected, disks, pwVars, stepVars, results, logVars, confirm_key, dlg>>

\* welcome_screen(): a key ends the info screen; the confirmation is rendered.
WelcomeInfoKey ==
    /\ pc = "welcome_info"
    /\ pc' = "welcome_confirm"
    /\ selected' = ConfirmInitial(TRUE)
    /\ screen' = ShowConfirmation("Start Installation",
                                  <<"Are you ready to begin the installation?">>,
                                  ConfirmInitial(TRUE))
    /\ UNCHANGED <<tuiVars, drew, stdout, exc, exitCode, config, disks, pwVars,
                   stepVars, entered, results, logVars, confirm_key, dlg>>

\* welcome_screen(): one key of the confirmation; Yes starts system_checks().
WelcomeConfirmKey ==
    /\ pc = "welcome_confirm"
    /\ \E key \in ConfirmKeys :
         LET r == ConfirmStep(selected, key) IN
         /\ selected' = r.sel
         /\ confirm_key' = IF r.done THEN [key |-> key, sel |-> selected]
                                    ELSE confirm_key
         /\ IF ~r.done
              THEN /\ pc' = pc
                   /\ screen' = ShowConfirmation("Start Installation",
                                    <<"Are you ready to begin the installation?">>, r.sel)
                   /\ UNCHANGED <<termMode, exc, exitCode, stepVars, entered, results>>
            ELSE IF ~r.value
              THEN /\ Returned(FALSE)
                   /\ Finish(NoExc, stdscr, termMode)
                   /\ UNCHANGED <<screen, stepVars, entered>>
            ELSE /\ Returned(TRUE)
                 /\ entered' = Append(entered, "SystemChecks")
                 /\ steps' = SystemCheckSteps
                 /\ progress' = SystemCheckSteps
                 /\ screen' = ShowProgress("System Checks", SystemCheckSteps)
                 /\ pc' = "check_internet"
                 /\ UNCHANGED <<termMode, exc, exitCode>>
    /\ UNCHANGED <<stdscr, height, width, drew, stdout, config, disks, pwVars, logVars, dlg>>

\* system_checks(): check_internet_connection() and what follows its result.
\* Its bare except turns an interrupt during the request into a False result.
CheckInternet ==
    /\ pc = "check_internet"
    /\ \E ok \in BOOLEAN :
         IF ~ok
           THEN /\ steps' = SetStep(steps, 1, "Internet connection check", "error")
                /\ progress' = steps'
                /\ screen' = ShowInfoScreen("Error", NoInternetLines, height, TRUE)
                /\ pc' = "error_info"
           ELSE /\ steps' = SetStep(SetStep(steps, 1, "Internet connection verified",
                                            "completed"),
                                    2, "Synchronizing system clock...", "current")
                /\ progress' = steps'
                /\ screen' = ShowProgress("System Checks", steps')
                /\ pc' = "sync_clock"
    /\ UNCHANGED <<tuiVars, drew, stdout, exc, exitCode, config, selected, disks,
                   pwVars, entered, results, logVars, confirm_key, dlg>>

\* A system_checks() that treats a failed sync_clock() like a failed
\* internet check.
SyncClock_FailsPhase ==
    /\ pc = "sync_clock"
    /\ \E ok \in BOOLEAN :
         IF ~ok
           THEN /\ steps' = SetStep(steps, 2, "Clock sync failed", "error")
                /\ screen' = ShowInfoScreen("Error",
                                            <<Line("ERROR: ", <<"Clock sync failed">>)>>,
                                            height, TRUE)
                /\ pc' = "error_info"
           ELSE /\ steps' = SetStep(SetStep(steps, 2, "System clock synchronized",
                                            "completed"),
                                    3, "Detecting system type...", "current")
                /\ screen' = ShowProgress("System Checks", steps')
                /\ pc' = "detect_uefi"
    /\ progress' = steps'
    /\ UNCHANGED <<tuiVars, drew, stdout, exc, exitCode, config, selected, disks,
                   pwVars, entered, results, logVars, confirm_key, dlg>>

\* system_checks(): sync_clock(); its failure does not fail the phase.
SyncClock ==
    /\ pc = "sync_clock"
    /\ \E ok \in BOOLEAN :
         steps' = SetStep(SetStep(steps, 2,
                                  IF ok THEN "System clock synchronized"
                                        ELSE "Clock sync failed (continuing anyway)",
                                  "completed"),
                          3, "Detecting system type...", "current")
    /\ progress' = steps'
    /\ screen' = ShowProgress("System Checks", steps')
    /\ pc' = "detect_uefi"
    /\ UNCHANGED <<tuiVars, drew, stdout, exc, exitCode, config, selected, disks,
                   pwVars, entered, results, logVars, confirm_key, dlg>>

\* system_checks(): is_uefi() is stored; the phase returns True and
\* select_disk() is about to list the disks.
DetectUefi ==
    /\ pc = "detect_uefi"
    /\ \E uefi \in BOOLEAN :
         /\ config' = Put(config, "uefi", uefi)
         /\ steps' = SetStep(steps, 3,
                             IF uefi THEN "System type detected: UEFI"
                                     ELSE "System type detected: BIOS",
                             "completed")
    /\ progress' = steps'
    /\ screen' = ShowProgress("System Checks", steps')
    /\ Returned(TRUE)
    /\ entered' = Append(entered, "DiskSelection")
    /\ pc' = "list_disks"
    /\ UNCHANGED <<tuiVars, drew, stdout, exc, exitCode, selected, disks, pwVars,
                   logVars, confirm_key, dlg>>

\* -------------------------------------------------------------- select_disk()
\* select_disk(): get_available_disks(); no disk is an error screen.
ListDisks ==
    /\ pc = "list_disks"
    /\ cmds' = Append(cmds, Cmd("lsblk -dpno NAME,SIZE,MODEL | grep -v loop", <<>>))
    /\ \E n \in 0..MaxDisks :
         /\ disks' = SubSeq(DiskNames, 1, n)
         /\ IF n = 0
              THEN /\ screen' = ShowInfoScreen("Error", NoDisksLines, height, TRUE)
                   /\ pc' = "error_info"
                   /\ UNCHANGED selected
              ELSE /\ selected' = 0
                   /\ screen' = ShowMenu("Disk Selection", DiskOptions(disks'), 0, height)
                   /\ pc' = "disk_menu"
    /\ UNCHANGED <<tuiVars, drew, stdout, exc, exitCode, config, confirm_key,
                   pwVars, stepVars, entered, results, calls, dlg>>

\* An error screen of a failed phase: any key, the phase returns False and
\* run() returns.
ErrorInfoKey ==
    /\ pc = "error_info"
    /\ Returned(FALSE)
    /\ Finish(NoExc, stdscr, termMode)
    /\ UNCHANGED <<stdscr, height, width, screen, drew, stdout, config, selected,
                   disks, pwVars, stepVars, entered, logVars, confirm_key, dlg>>

HostnamePrompt == "Enter hostname:"
DefaultHostname == <<"arch">>
UsernamePrompt == "Enter username:"
DefaultUsername == <<"user">>

\* select_disk(): one key of the disk menu; a choice is stored and confirmed.
DiskMenuKey ==
    /\ pc = "disk_menu"
    /\ \E key \in MenuKeys :
         LET r == MenuStep(Len(disks), selected, key) IN
         IF ~r.done
           THEN /\ selected' = r.sel
                /\ screen' = ShowMenu("Disk Selection", DiskOptions(disks), r.sel, height)
                /\ UNCHANGED <<pc, termMode, exc, exitCode, config, results>>
         ELSE IF r.value = -1
           THEN /\ Returned(FALSE)
                /\ Finish(NoExc, stdscr, termMode)
                /\ UNCHANGED <<selected, screen, config>>
         ELSE /\ config' = Put(config, "disk", disks[r.value + 1])
              /\ selected' = ConfirmInitial(FALSE)
              /\ screen' = ShowConfirmation("Confirm Disk Selection",
                               DiskConfirmMessage(disks[r.value + 1]),
                               ConfirmInitial(FALSE))
              /\ pc' = "disk_confirm"
              /\ UNCHANGED <<termMode, exc, exitCode, results>>
    /\ UNCHANGED <<stdscr, height, width, drew, stdout, disks, pwVars, stepVars,
                   entered, logVars, confirm_key, dlg>>

\* select_disk(): one key of the confirmation; Yes starts basic_config().
DiskConfirmKey ==
    /\ pc = "disk_confirm"
    /\ \E key \in ConfirmKeys :
         LET r == ConfirmStep(selected, key) IN
         /\ selected' = r.sel
         /\ confirm_key' = IF r.done THEN [key |-> key, sel |-> selected]
                                    ELSE confirm_key
         /\ IF ~r.done
              THEN /\ screen' = ShowConfirmation("Confirm Disk Selection",
                                    DiskConfirmMessage(config["disk"]), r.sel)
                   /\ UNCHANGED <<pc, termMode, exc, exitCode, entered, results>>
            ELSE IF ~r.value
              THEN /\ Returned(FALSE)
                   /\ Finish(NoExc, stdscr, termMode)
                   /\ UNCHANGED <<screen, entered>>
            ELSE /\ Returned(TRUE)
                 /\ entered' = Append(entered, "ConfigCollection")
                 /\ screen' = ShowTextInput("System Configuration", HostnamePrompt,
                                            DefaultHostname)
                 /\ pc' = "hostname_input"
                 /\ UNCHANGED <<termMode, exc, exitCode>>
    /\ UNCHANGED <<stdscr, height, width, drew, stdout, config, disks, pwVars,
                   stepVars, logVars, dlg>>

\* ------------------------------------------------------------- basic_config()
TimezoneOptions ==
    << "America/New_York (Eastern)", "America/Chicago (Central)",
       "America/Denver (Mountain)", "America/Los_Angeles (Pacific)",
       "Europe/London", "Europe/Berlin", "Asia/Tokyo", "Custom timezone" >>

TzMap ==
    << "America/New_York", "America/Chicago", "America/Denver",
       "America/Los_Angeles", "Europe/London", "Europe/Berlin", "Asia/Tokyo" >>

LocaleOptions ==
    << "en_US.UTF-8 (English - US)", "en_GB.UTF-8 (English - UK)",
       "es_ES.UTF-8 (Spanish - Spain)", "es_MX.UTF-8 (Spanish - Mexico)",
       "Custom locale" >>

LocaleMap == << "en_US.UTF-8", "en_GB.UTF-8", "es_ES.UTF-8", "es_MX.UTF-8" >>

RootPrompt == <<"Enter root password:">>
RootConfirmPrompt == <<"Confirm root password:">>
UserPrompt(username) == <<"Enter password for ">> \o username \o <<":">>
UserConfirmPrompt(username) == <<"Confirm password for ">> \o username \o <<":">>

MismatchLines ==
    << Line("ERROR: ", <<"Passwords do not match!">>), Plain("Please try again.") >>

RootRequiredLines ==
    << Line("ERROR: ", <<"Root password is required!">>),
       Plain("Please enter a password.") >>

UserRequiredLines ==
    << Line("ERROR: ", <<"User password is required!">>),
       Plain("Please enter a password.") >>

\* get_hostname() / get_username(): an empty result becomes None.
OrNone(v) == IF v = <<>> THEN None ELSE v

\* show_password_input: curses.endwin() before getpass reads the secret.
PasswordRelease(mode) == "cooked"

\* show_password_input: the finally clause re-enters curses mode.
PasswordReacquire(mode) == "curses"

PasswordPcs == {"root_pw", "root_pw_confirm", "user_pw", "user_pw_confirm"}

\* basic_config(): the hostname text box is submitted.
HostnameInput ==
    /\ pc = "hostname_input"
    /\ \E raw \in Typed :
         LET r == TextInputStep(raw, DefaultHostname) IN
         IF ~r.done
           THEN /\ screen' = ShowTextInput("System Configuration", HostnamePrompt,
                                           DefaultHostname)
                /\ UNCHANGED <<pc, termMode, exc, exitCode, config, results>>
           ELSE /\ config' = Put(config, "hostname", OrNone(r.value))
                /\ IF ~Truthy(OrNone(r.value))
                     THEN /\ Returned(FALSE)
                          /\ Finish(NoExc, stdscr, termMode)
                          /\ UNCHANGED screen
                     ELSE /\ screen' = ShowTextInput("System Configuration",
                                                     UsernamePrompt, DefaultUsername)
                          /\ pc' = "username_input"
                          /\ UNCHANGED <<termMode, exc, exitCode, results>>
    /\ UNCHANGED <<stdscr, height, width, drew, stdout, selected, disks, pwVars,
                   stepVars, entered, logVars, confirm_key, dlg>>

\* basic_config(): the username text box is submitted.
UsernameInput ==
    /\ pc = "username_input"
    /\ \E raw \in Typed :
         LET r == TextInputStep(raw, DefaultUsername) IN
         IF ~r.done
           THEN /\ screen' = ShowTextInput("System Configuration", UsernamePrompt,
                                           DefaultUsername)
                /\ UNCHANGED <<pc, termMode, exc, exitCode, config, results, selected>>
           ELSE /\ config' = Put(config, "username", OrNone(r.value))
                /\ IF ~Truthy(OrNone(r.value))
                     THEN /\ Returned(FALSE)
                          /\ Finish(NoExc, stdscr, termMode)
                          /\ UNCHANGED <<screen, selected>>
                     ELSE /\ selected' = 0
                          /\ screen' = ShowMenu("Select Timezone", TimezoneOptions, 0,
                                                height)
                          /\ pc' = "timezone_menu"
                          /\ UNCHANGED <<termMode, exc, exitCode, results>>
    /\ UNCHANGED <<stdscr, height, width, drew, stdout, disks, pwVars, stepVars,
                   entered, logVars, confirm_key, dlg>>

\* get_timezone(): one key of the timezone menu.
TimezoneMenuKey ==
    /\ pc = "timezone_menu"
    /\ \E key \in MenuKeys :
         LET r == MenuStep(Len(TimezoneOptions), selected, key) IN
         IF ~r.done
           THEN /\ selected' = r.sel
                /\ screen' = ShowMenu("Select Timezone", TimezoneOptions, r.sel, height)
                /\ UNCHANGED <<pc, termMode, exc, exitCode, config, results>>
         ELSE IF r.value = -1
           THEN /\ config' = Put(config, "timezone", None)
                /\ Returned(FALSE)
                /\ Finish(NoExc, stdscr, termMode)
                /\ UNCHANGED <<selected, screen>>
         ELSE IF r.value = Len(TimezoneOptions) - 1
           THEN /\ screen' = ShowTextInput("Custom Timezone",
                                 "Enter timezone (e.g., Europe/Madrid):", <<>>)
                /\ pc' = "timezone_custom"
                /\ UNCHANGED <<selected, termMode, exc, exitCode, config, results>>
         ELSE /\ config' = Put(config, "timezone", <<TzMap[r.value + 1]>>)
              /\ selected' = 0
              /\ screen' = ShowMenu("Select Locale", LocaleOptions, 0, height)
              /\ pc' = "locale_menu"
              /\ UNCHANGED <<termMode, exc, exitCode, results>>
    /\ UNCHANGED <<stdscr, height, width, drew, stdout, disks, pwVars, stepVars,
                   entered, logVars, confirm_key, dlg>>

\* get_timezone(): the custom timezone text box (no default) is submitted.
TimezoneCustomInput ==
    /\ pc = "timezone_custom"
    /\ \E raw \in Typed :
         LET r == TextInputStep(raw, <<>>) IN
         IF ~r.done
           THEN /\ screen' = ShowTextInput("Custom Timezone",
                                 "Enter timezone (e.g., Europe/Madrid):", <<>>)
                /\ UNCHANGED <<pc, termMode, exc, exitCode, config, results, selected>>
           ELSE /\ config' = Put(config, "timezone", r.value)
                /\ IF ~Truthy(r.value)
                     THEN /\ Returned(FALSE)
                          /\ Finish(NoExc, stdscr, termMode)
                          /\ UNCHANGED <<screen, selected>>
                     ELSE /\ selected' = 0
                          /\ screen' = ShowMenu("Select Locale", LocaleOptions, 0, height)
                          /\ pc' = "locale_menu"
                          /\ UNCHANGED <<termMode, exc, exitCode, results>>
    /\ UNCHANGED <<stdscr, height, width, drew, stdout, disks, pwVars, stepVars,
                   entered, logVars, confirm_key, dlg>>

\* get_locale(): one key of the locale menu; a preset starts get_passwords().
LocaleMenuKey ==
    /\ pc = "locale_menu"
    /\ \E key \in MenuKeys :
         LET r == MenuStep(Len(LocaleOptions), selected, key) IN
         IF ~r.done
           THEN /\ selected' = r.sel
                /\ screen' = ShowMenu("Select Locale", LocaleOptions, r.sel, height)
                /\ UNCHANGED <<pc, termMode, exc, exitCode, config, results>>
         ELSE IF r.value = -1
           THEN /\ config' = Put(config, "locale", None)
                /\ Returned(FALSE)
                /\ Finish(NoExc, stdscr, termMode)
                /\ UNCHANGED <<selected, screen>>
         ELSE IF r.value = Len(LocaleOptions) - 1
           THEN /\ screen' = ShowTextInput("Custom Locale",
                                 "Enter locale (e.g., de_DE.UTF-8):", <<>>)
                /\ pc' = "locale_custom"
                /\ UNCHANGED <<selected, termMode, exc, exitCode, config, results>>
         ELSE /\ config' = Put(config, "locale", <<LocaleMap[r.value + 1]>>)
              /\ screen' = ShowPasswordInput("Security Configuration", RootPrompt)
              /\ termMode' = PasswordRelease(termMode)
              /\ pc' = "root_pw"
              /\ UNCHANGED <<selected, exc, exitCode, results>>
    /\ UNCHANGED <<stdscr, height, width, drew, stdout, disks, pwVars, stepVars,
                   entered, logVars, confirm_key, dlg>>

\* get_locale(): the custom locale text box (no default) is submitted.
LocaleCustomInput ==
    /\ pc = "locale_custom"
    /\ \E raw \in Typed :
         LET r == TextInputStep(raw, <<>>) IN
         IF ~r.done
           THEN /\ screen' = ShowTextInput("Custom Locale",
                                 "Enter locale (e.g., de_DE.UTF-8):", <<>>)
                /\ UNCHANGED <<pc, termMode, exc, exitCode, config, results>>
           ELSE /\ config' = Put(config, "locale", r.value)
                /\ IF ~Truthy(r.value)
                     THEN /\ Returned(FALSE)
                          /\ Finish(NoExc, stdscr, termMode)
                          /\ UNCHANGED screen
                     ELSE /\ screen' = ShowPasswordInput("Security Configuration",
                                                         RootPrompt)
                          /\ termMode' = PasswordRelease(termMode)
                          /\ pc' = "root_pw"
                          /\ UNCHANGED <<exc, exitCode, results>>
    /\ UNCHANGED <<stdscr, height, width, drew, stdout, selected, disks, pwVars,
                   stepVars, entered, logVars, confirm_key, dlg>>

\* ------------------------------------------------------------ get_passwords()
\* A check that takes the empty password for a password.
PasswordGiven_Always(p) == TRUE

\* get_passwords(): `if root_password:` / `if user_password:`
PasswordGiven(p) == p # <<>>

\* A comparison that takes any confirmation for a match.
PasswordsMatch_Always(p, c) == TRUE

\* get_passwords(): `if root_password == confirm_password:`
PasswordsMatch(p, c) == p = c

\* A summary that prints the root password instead of masking it.
SummaryLines_ShowsRoot(cfg) ==
    << Plain("Installation Configuration:"),
       Line("", <<"Root Password:   ">>
                \o (IF Has(cfg, "root_password") THEN cfg["root_password"] ELSE <<>>)),
       Line("", <<"User Password:   ",
                  IF Has(cfg, "user_password") /\ Truthy(cfg["user_password"])
                    THEN "Set" ELSE "Not set">>) >>

\* show_summary: the lines built from the collected config.
SummaryLines(cfg) ==
    << Plain("Installation Configuration:"),
       Plain(""),
       Line("", <<"System Type:     ",
                  IF Has(cfg, "uefi") /\ cfg["uefi"] THEN "UEFI" ELSE "BIOS">>),
       Line("", <<"Target Disk:     ",
                  IF Has(cfg, "disk") THEN cfg["disk"] ELSE "Not selected">>),
       Line("", <<"Hostname:        ">>
                \o (IF Has(cfg, "hostname") THEN cfg["hostname"] ELSE <<"arch">>)),
       Line("", <<"Username:        ">>
                \o (IF Has(cfg, "username") THEN cfg["username"] ELSE <<"user">>)),
       Line("", <<"Timezone:        ">>
                \o (IF Has(cfg, "timezone") THEN cfg["timezone"] ELSE <<"UTC">>)),
       Line("", <<"Locale:          ">>
                \o (IF Has(cfg, "locale") THEN cfg["locale"] ELSE <<"en_US.UTF-8">>)),
       Line("", <<"Root Password:   ",
                  IF Has(cfg, "root_password") /\ Truthy(cfg["root_password"])
                    THEN "Set" ELSE "Not set">>),
       Line("", <<"User Password:   ",
                  IF Has(cfg, "user_password") /\ Truthy(cfg["user_password"])
                    THEN "Set" ELSE "Not set">>),
       Plain(""),
       Line("WARNING: ", <<"This will PERMANENTLY ERASE the selected disk!">>) >>

\* show_summary: the info screen is drawn without waiting; the confirmation
\* that follows starts with draw_header, which clears the grid.
ShowSummary(cfg, h, sel) ==
    LET summary == ShowInfoScreen("Installation Summary", SummaryLines(cfg), h, FALSE)
    IN  ShowConfirmation("Confirm Installation", <<"Proceed with installation?">>, sel)

\* get_passwords(): the root password prompt is answered.
RootPasswordInput ==
    /\ pc = "root_pw"
    /\ \E p \in Passwords :
         /\ pw' = p
         /\ IF PasswordGiven(p)
              THEN /\ screen' = ShowPasswordInput("Security Configuration",
                                                  RootConfirmPrompt)
                   /\ termMode' = PasswordRelease(PasswordReacquire(termMode))
                   /\ pc' = "root_pw_confirm"
                   /\ UNCHANGED attempts
              ELSE /\ attempts < MaxAttempts
                   /\ attempts' = attempts + 1
                   /\ termMode' = PasswordReacquire(termMode)
                   /\ screen' = ShowInfoScreen("Password Required", RootRequiredLines,
                                               height, TRUE)
                   /\ pc' = "root_retry_info"
    /\ UNCHANGED <<stdscr, height, width, drew, stdout, exc, exitCode, config,
                   selected, disks, confirm_password, root_password, stepVars,
                   entered, results, logVars, confirm_key, dlg>>

\* get_passwords(): the root confirmation prompt is answered.
RootPasswordConfirm ==
    /\ pc = "root_pw_confirm"
    /\ \E c \in Passwords :
         /\ confirm_password' = c
         /\ IF PasswordsMatch(pw, c)
              THEN /\ root_password' = pw
                   /\ UNCHANGED attempts
                   /\ screen' = ShowPasswordInput("Security Configuration",
                                                  UserPrompt(config["username"]))
                   /\ termMode' = PasswordRelease(PasswordReacquire(termMode))
                   /\ pc' = "user_pw"
              ELSE /\ attempts < MaxAttempts
                   /\ attempts' = attempts + 1
                   /\ termMode' = PasswordReacquire(termMode)
                   /\ screen' = ShowInfoScreen("Password Mismatch", MismatchLines,
                                               height, TRUE)
                   /\ pc' = "root_retry_info"
                   /\ UNCHANGED root_password
    /\ UNCHANGED <<stdscr, height, width, drew, stdout, exc, exitCode, config,
                   selected, disks, pw, stepVars, entered, results, logVars, confirm_key, dlg>>

\* get_passwords(): a key ends the error screen; the root prompt comes again.
RootRetryKey ==
    /\ pc = "root_retry_info"
    /\ screen' = ShowPasswordInput("Security Configuration", RootPrompt)
    /\ termMode' = PasswordRelease(termMode)
    /\ pc' = "root_pw"
    /\ UNCHANGED <<stdscr, height, width, drew, stdout, exc, exitCode, config,
                   selected, disks, pwVars, stepVars, entered, results, logVars, confirm_key, dlg>>

\* get_passwords(): the user password prompt is answered.
UserPasswordInput ==
    /\ pc = "user_pw"
    /\ \E p \in Passwords :
         /\ pw' = p
         /\ IF PasswordGiven(p)
              THEN /\ screen' = ShowPasswordInput("Security Configuration",
                                     UserConfirmPrompt(config["username"]))
                   /\ termMode' = PasswordRelease(PasswordReacquire(termMode))
                   /\ pc' = "user_pw_confirm"
                   /\ UNCHANGED attempts
              ELSE /\ attempts < MaxAttempts
                   /\ attempts' = attempts + 1
                   /\ termMode' = PasswordReacquire(termMode)
                   /\ screen' = ShowInfoScreen("Password Required", UserRequiredLines,
                                               height, TRUE)
                   /\ pc' = "user_retry_info"
    /\ UNCHANGED <<stdscr, height, width, drew, stdout, exc, exitCode, config,
                   selected, disks, confirm_password, root_password, stepVars,
                   entered, results, logVars, confirm_key, dlg>>

\* get_passwords(): the user confirmation prompt is answered; on a match
\* basic_config() stores both passwords and returns True, and
\* installation_summary() renders the summary confirmation.
UserPasswordConfirm ==
    /\ pc = "user_pw_confirm"
    /\ \E c \in Passwords :
         /\ confirm_password' = c
         /\ IF PasswordsMatch(pw, c)
              THEN /\ config' = Put(Put(config, "root_password", root_password),
                                    "user_password", pw)
                   /\ attempts' = 0
                   /\ termMode' = PasswordReacquire(termMode)
                   /\ Returned(TRUE)
                   /\ entered' = Append(entered, "SummaryConfirm")
                   /\ selected' = ConfirmInitial(FALSE)
                   /\ screen' = ShowSummary(config', height, ConfirmInitial(FALSE))
                   /\ pc' = "summary_confirm"
              ELSE /\ attempts < MaxAttempts
                   /\ attempts' = attempts + 1
                   /\ termMode' = PasswordReacquire(termMode)
                   /\ screen' = ShowInfoScreen("Password Mismatch", MismatchLines,
                                               height, TRUE)
                   /\ pc' = "user_retry_info"
                   /\ UNCHANGED <<config, selected, entered, results>>
    /\ UNCHANGED <<stdscr, height, width, drew, stdout, exc, exitCode, disks, pw,
                   root_password, stepVars, logVars, confirm_key, dlg>>

\* get_passwords(): a key ends the error screen; the user prompt comes again.
UserRetryKey ==
    /\ pc = "user_retry_info"
    /\ screen' = ShowPasswordInput("Security Configuration",
                                   UserPrompt(config["username"]))
    /\ termMode' = PasswordRelease(termMode)
    /\ pc' = "user_pw"
    /\ UNCHANGED <<stdscr, height, width, drew, stdout, exc, exitCode, config,
                   selected, disks, pwVars, stepVars, entered, results, logVars, confirm_key, dlg>>

\* ---------------------------------------------------------- utils/disk.py
ProbeMount == {"none", "other", "match"}     \* mount | grep archiso
ProbeBlkid == {"none", "other", "iso"}       \* blkid <disk>*
ProbeRemovable == {"none", "0", "1"}         \* /sys/block/<disk>/removable
ProbeSize == {"none", "bad", "small", "large"}  \* lsblk -b -o SIZE, vs 64 GB

\* An is_iso_device that refuses the disk when no probe could tell.
IsIsoDevice_FailsClosed(m, b, r, s) ==
    \/ m \in {"match", "none"}
    \/ b = "iso"
    \/ (r = "1" /\ s = "small")

\* is_iso_device: the verdict on the outputs of its probes.
IsIsoDevice(m, b, r, s) ==
    \/ m = "match"
    \/ b = "iso"
    \/ (r = "1" /\ s = "small")

\* is_iso_device: the probe commands it runs before returning.
IsoProbeCmds(disk, m, b, r) ==
    <<Cmd("mount | grep archiso", <<>>)>>
    \o (IF m = "match" THEN <<>>
        ELSE <<Cmd("blkid", <<disk>>)>>
             \o (IF b = "iso" THEN <<>>
                 ELSE <<Cmd("cat /sys/block/removable", <<disk>>)>>
                      \o (IF r = "1" THEN <<Cmd("lsblk -b -o SIZE -n", <<disk>>)>>
                          ELSE <<>>)))

\* cleanup_disk: the commands after the safety check; none of their results
\* is looked at.
CleanupCmds(disk, mounted, hasPartition) ==
    << Cmd("swapoff -a", <<>>), Cmd("umount -R /mnt", <<>>),
       Cmd("mount | grep", <<disk>>) >>
    \o (IF mounted THEN <<Cmd("umount -f", <<disk>>)>> ELSE <<>>)
    \o << Cmd("fuser -km", <<disk>>), Cmd("lsblk -ln -o NAME", <<disk>>) >>
    \o (IF hasPartition THEN <<Cmd("wipefs -af", <<disk, "1">>)>> ELSE <<>>)
    \o << Cmd("partprobe", <<disk>>), Cmd("blockdev --rereadpt", <<disk>>) >>

\* A cleanup_disk that goes on after the safety check whatever its verdict.
CleanupDiskCmds_Unguarded(disk, m, b, r, s, mounted, hasPartition) ==
    IsoProbeCmds(disk, m, b, r) \o CleanupCmds(disk, mounted, hasPartition)

\* cleanup_disk: everything it runs, given the verdict of is_iso_device.
CleanupDiskCmds(disk, m, b, r, s, mounted, hasPartition) ==
    IsoProbeCmds(disk, m, b, r)
    \o (IF IsIsoDevice(m, b, r, s) THEN <<>>
        ELSE CleanupCmds(disk, mounted, hasPartition))

UefiPartitionCmds(disk) ==
    << Cmd("sgdisk --zap-all", <<disk>>),
       Cmd("sgdisk --new=1:0:+1G --typecode=1:ef00", <<disk>>),
       Cmd("sgdisk --new=2:0:0 --typecode=2:8300", <<disk>>) >>

BiosPartitionCmds(disk) ==
    << Cmd("sgdisk --zap-all", <<disk>>),
       Cmd("sgdisk --new=1:0:+1M --typecode=1:ef02", <<disk>>),
       Cmd("sgdisk --new=2:0:0 --typecode=2:8300", <<disk>>) >>

\* A list of commands run in order until the first failure; failAt = 0: none
\* fails.  Returns the commands executed.
RunUntilFailure(list, failAt) ==
    IF failAt = 0 THEN list ELSE SubSeq(list, 1, failAt)

\* create_uefi_partitions / create_bios_partitions: the failing command is
\* run once more with 2>&1 to print its error output.
ErrorDetails(cmd) == <<Cmd(cmd.c, cmd.a \o <<"2>&1">>)>>

CreatePartitions(list, failAt) ==
    RunUntilFailure(list, failAt)
    \o (IF failAt = 0 THEN <<>> ELSE ErrorDetails(list[failAt]))

\* get_partition_name: nvme and mmcblk devices take a "p" before the number.
GetPartitionName(disk, n) ==
    IF disk \in {"/dev/nvme0n1", "/dev/mmcblk0"} THEN <<disk, "p", n>> ELSE <<disk, n>>

FormatCmds(disk, uefi) ==
    (IF uefi THEN <<Cmd("mkfs.fat -F32", GetPartitionName(disk, "1"))>> ELSE <<>>)
    \o <<Cmd("mkfs.ext4 -F", GetPartitionName(disk, "2"))>>

MountCmds(disk, uefi) ==
    <<Cmd("mount /mnt", GetPartitionName(disk, "2"))>>
    \o (IF uefi THEN << Cmd("mkdir -p /mnt/boot", <<>>),
                        Cmd("mount /mnt/boot", GetPartitionName(disk, "1")) >>
        ELSE <<>>)

PacstrapCmd ==
    Cmd("pacstrap /mnt",
        <<"base", "linux", "linux-firmware", "networkmanager", "grub", "efibootmgr",
          "wpa_supplicant", "dialog", "vim", "sudo">>)

FstabCmd == Cmd("genfstab -U /mnt >> /mnt/etc/fstab", <<>>)

Firmware(uefi) == IF uefi THEN "uefi" ELSE "bios"

\* An install_system() that picks the partitioning function the wrong way round.
PartitionFunction_Swapped(uefi) ==
    IF uefi THEN "create_bios_partitions" ELSE "create_uefi_partitions"

\* install_system(): the partitioning function chosen for the firmware.
PartitionFunction(uefi) ==
    IF uefi THEN "create_uefi_partitions" ELSE "create_bios_partitions"

\* ------------------------------------------------------------ install_system()
InstallSteps ==
    << Step("Creating disk partitions...", "current"),
       Step("Formatting partitions...", "pending"),
       Step("Mounting partitions...", "pending"),
       Step("Installing base system...", "pending"),
       Step("Generating filesystem table...", "pending") >>

\* The except clause of a phase: the first current step of a copy of the
\* list gets " FAILED" and status error.
RECURSIVE MarkFailedFrom(_, _)
MarkFailedFrom(stepList, i) ==
    IF i > Len(stepList) THEN stepList
    ELSE IF stepList[i].status = "current"
      THEN [stepList EXCEPT ![i] = [label |-> stepList[i].label \o <<" FAILED">>,
                                    status |-> "error"]]
    ELSE MarkFailedFrom(stepList, i + 1)

\* An except clause that marks every unfinished step as failed.
MarkFailed_MarksRest(stepList) ==
    [i \in DOMAIN stepList |->
       IF stepList[i].status = "completed" THEN stepList[i]
       ELSE [label |-> stepList[i].label \o <<" FAILED">>, status |-> "error"]]

MarkFailed(stepList) == MarkFailedFrom(stepList, 1)

\* A step pipeline that takes every outcome for a success.
StepEnded_IgnoresFailure(ok, okTitle, okSteps, okPc, failTitle, message) ==
    /\ steps' = okSteps
    /\ progress' = okSteps
    /\ screen' = ShowProgress(okTitle, okSteps)
    /\ pc' = okPc
    /\ config' = config

\* A step pipeline that records each finished step in the config.
StepEnded_WritesConfig(ok, okTitle, okSteps, okPc, failTitle, message) ==
    IF ok
      THEN /\ steps' = okSteps
           /\ progress' = okSteps
           /\ screen' = ShowProgress(okTitle, okSteps)
           /\ pc' = okPc
           /\ config' = Put(config, "last_step", okPc)
      ELSE /\ steps' = steps
           /\ progress' = MarkFailed(steps)
           /\ screen' = ShowInfoScreen("Error", <<Line("ERROR: ", <<message>>)>>,
                                       height, TRUE)
           /\ pc' = "error_info"
           /\ config' = config

\* A step of install_system() / phase2_system_configuration() ended: on
\* success the list advances and is rendered, on failure the except clause
\* renders the failed copy and the error screen.  The steps read
\* self.config and write nothing to it.
StepEnded(ok, okTitle, okSteps, okPc, failTitle, message) ==
    IF ok
      THEN /\ steps' = okSteps
           /\ progress' = okSteps
           /\ screen' = ShowProgress(okTitle, okSteps)
           /\ pc' = okPc
           /\ config' = config
      ELSE /\ steps' = steps
           /\ progress' = MarkFailed(steps)
           /\ screen' = ShowInfoScreen("Error", <<Line("ERROR: ", <<message>>)>>,
                                       height, TRUE)
           /\ pc' = "error_info"
           /\ config' = config

\* show_summary: one key of the confirmation; Yes starts install_system().
SummaryConfirmKey ==
    /\ pc = "summary_confirm"
    /\ \E key \in ConfirmKeys :
         LET r == ConfirmStep(selected, key) IN
         /\ selected' = r.sel
         /\ confirm_key' = IF r.done THEN [key |-> key, sel |-> selected]
                                    ELSE confirm_key
         /\ IF ~r.done
              THEN /\ screen' = ShowSummary(config, height, r.sel)
                   /\ UNCHANGED <<pc, termMode, exc, exitCode, entered, results,
                                  stepVars, cmds>>
            ELSE IF ~r.value
              THEN /\ Returned(FALSE)
                   /\ Finish(NoExc, stdscr, termMode)
                   /\ UNCHANGED <<screen, entered, stepVars, cmds>>
            ELSE /\ Returned(TRUE)
                 /\ entered' = Append(entered, "BaseInstall")
                 /\ steps' = InstallSteps
                 /\ progress' = InstallSteps
                 /\ screen' = ShowProgress("Installing System", InstallSteps)
                 /\ cmds' = <<>>
                 /\ pc' = "cleanup_disk"
                 /\ UNCHANGED <<termMode, exc, exitCode>>
    /\ UNCHANGED <<stdscr, height, width, drew, stdout, config, disks, pwVars, calls, dlg>>

\* install_system(): cleanup_disk(disk), with its install-medium check.
CleanupDisk ==
    /\ pc = "cleanup_disk"
    /\ \E m \in ProbeMount, b \in ProbeBlkid, r \in ProbeRemovable, s \in ProbeSize,
          mounted \in BOOLEAN, hasPartition \in BOOLEAN :
         /\ cmds' = cmds \o CleanupDiskCmds(config["disk"], m, b, r, s, mounted,
                                            hasPartition)
         /\ calls' = Append(calls, Call("cleanup_disk", <<config["disk"]>>,
                                        ~IsIsoDevice(m, b, r, s)))
         /\ StepEnded(~IsIsoDevice(m, b, r, s), "Installing System", steps,
                      "partition", "Installation Failed", "Failed to clean up disk")
    /\ UNCHANGED <<tuiVars, drew, stdout, exc, exitCode, selected, disks,
                   pwVars, entered, results, confirm_key, dlg>>

\* install_system(): create_uefi_partitions or create_bios_partitions.
CreatePartitionsStep ==
    /\ pc = "partition"
    /\ \E failAt \in 0..3 :
         /\ cmds' = cmds \o CreatePartitions(
                              IF PartitionFunction(config["uefi"]) = "create_uefi_partitions"
                                THEN UefiPartitionCmds(config["disk"])
                                ELSE BiosPartitionCmds(config["disk"]),
                              failAt)
         /\ calls' = Append(calls, Call(PartitionFunction(config["uefi"]),
                                        <<config["disk"]>>, failAt = 0))
         /\ StepEnded(failAt = 0, "Installing System",
                      SetStep(SetStep(steps, 1, "Disk partitions created", "completed"),
                              2, "Formatting partitions...", "current"),
                      "format", "Installation Failed", "Failed to create partitions")
    /\ UNCHANGED <<tuiVars, drew, stdout, exc, exitCode, selected, disks,
                   pwVars, entered, results, confirm_key, dlg>>

\* install_system(): format_partitions(disk, uefi).
FormatPartitions ==
    /\ pc = "format"
    /\ \E failAt \in 0..Len(FormatCmds(config["disk"], config["uefi"])) :
         /\ cmds' = cmds \o RunUntilFailure(FormatCmds(config["disk"], config["uefi"]),
                                            failAt)
         /\ calls' = Append(calls, Call("format_partitions",
                                        <<config["disk"], Firmware(config["uefi"])>>,
                                        failAt = 0))
         /\ StepEnded(failAt = 0, "Installing System",
                      SetStep(SetStep(steps, 2, "Partitions formatted", "completed"),
                              3, "Mounting partitions...", "current"),
                      "mount", "Installation Failed", "Failed to format partitions")
    /\ UNCHANGED <<tuiVars, drew, stdout, exc, exitCode, selected, disks,
                   pwVars, entered, results, confirm_key, dlg>>

\* install_system(): mount_partitions(disk, uefi).
MountPartitions ==
    /\ pc = "mount"
    /\ \E failAt \in 0..Len(MountCmds(config["disk"], config["uefi"])) :
         /\ cmds' = cmds \o RunUntilFailure(MountCmds(config["disk"], config["uefi"]),
                                            failAt)
         /\ calls' = Append(calls, Call("mount_partitions",
                                        <<config["disk"], Firmware(config["uefi"])>>,
                                        failAt = 0))
         /\ StepEnded(failAt = 0, "Installing System",
                      SetStep(SetStep(steps, 3, "Partitions mounted", "completed"),
                              4, "Installing base system (this may take a while)...",
                              "current"),
                      "pacstrap", "Installation Failed", "Failed to mount partitions")
    /\ UNCHANGED <<tuiVars, drew, stdout, exc, exitCode, selected, disks,
                   pwVars, entered, results, confirm_key, dlg>>

\* install_system(): pacstrap through run_command.
Pacstrap ==
    /\ pc = "pacstrap"
    /\ \E ok \in BOOLEAN :
         /\ cmds' = Append(cmds, PacstrapCmd)
         /\ calls' = Append(calls, Call("pacstrap", PacstrapCmd.a, ok))
         /\ StepEnded(ok, "Installing System",
                      SetStep(SetStep(steps, 4, "Base system installed", "completed"),
                              5, "Generating filesystem table...", "current"),
                      "fstab", "Installation Failed", "Failed to install base system")
    /\ UNCHANGED <<tuiVars, drew, stdout, exc, exitCode, selected, disks,
                   pwVars, entered, results, confirm_key, dlg>>

CompletionLines ==
    << Plain("Installation Phase 1 Complete!"),
       Plain(""),
       Plain("What has been installed:"),
       Plain("  v Base Arch Linux system"),
       Plain("  v Linux kernel and firmware"),
       Plain("  v Basic filesystem structure"),
       Plain("  v Package manager (pacman)"),
       Plain(""),
       Plain("Next phases will include:"),
       Plain("  System configuration (users, bootloader)"),
       Plain("  Software installation (development tools)"),
       Plain("  Hyprland desktop environment"),
       Plain("  Personal dotfiles and customization"),
       Plain(""),
       Plain("The installation will continue automatically...") >>

\* install_system(): generate_fstab(); on success the phase returns True and
\* completion() shows its screen.
GenerateFstab ==
    /\ pc = "fstab"
    /\ \E ok \in BOOLEAN :
         /\ cmds' = Append(cmds, FstabCmd)
         /\ calls' = Append(calls, Call("generate_fstab", <<>>, ok))
         /\ IF ok
              THEN /\ steps' = SetStep(steps, 5, "Filesystem table created", "completed")
                   /\ progress' = steps'
                   /\ Returned(TRUE)
                   /\ screen' = ShowInfoScreen("Installation Complete", CompletionLines,
                                               height, TRUE)
                   /\ pc' = "phase1_done_info"
                   /\ UNCHANGED config
              ELSE /\ StepEnded(FALSE, "Installing System", steps, pc,
                                "Installation Failed", "Failed to generate fstab")
                   /\ UNCHANGED results
    /\ UNCHANGED <<tuiVars, drew, stdout, exc, exitCode, selected, disks,
                   pwVars, entered, confirm_key, dlg>>

\* ------------------------------------------------------- utils/chroot.py
\* chroot_command: every command runs under arch-chroot /mnt.
Chroot(c, a) == Cmd("arch-chroot /mnt", <<c>> \o a)

TimezoneCmds(tz) ==
    << Chroot("ln -sf /usr/share/zoneinfo /etc/localtime", tz),
       Chroot("hwclock --systohc", <<>>) >>

LocaleCmds(locale) ==
    <<Chroot("sed -i locale.gen", locale)>>
    \o (IF locale # <<"en_US.UTF-8">>
          THEN <<Chroot("sed -i locale.gen", <<"en_US.UTF-8">>)>> ELSE <<>>)
    \o << Chroot("locale-gen", <<>>), Chroot("echo LANG > /etc/locale.conf", locale) >>

HostnameCmds(hostname) ==
    << Chroot("echo > /etc/hostname", hostname), Chroot("cat > /etc/hosts", hostname) >>

NetworkCmds == <<Chroot("systemctl enable", <<"NetworkManager">>)>>

\* A setup_users that sets the user's password before creating the account.
UsersCmds_PasswordFirst(username, rootPw, userPw) ==
    << Chroot("chpasswd", <<"root:">> \o rootPw),
       Chroot("chpasswd", username \o <<":">> \o userPw),
       Chroot("useradd -m -G wheel,audio,video,optical,storage -s /bin/bash", username),
       Chroot("sed -i /etc/sudoers", <<"%wheel ALL=(ALL:ALL) ALL">>),
       Chroot("echo >> /etc/sudoers",
              <<"%wheel ALL=(ALL:ALL) NOPASSWD: /usr/bin/pacman, /usr/bin/makepkg">>) >>

\* setup_users: its chroot commands, in order.
UsersCmds(username, rootPw, userPw) ==
    << Chroot("chpasswd", <<"root:">> \o rootPw),
       Chroot("useradd -m -G wheel,audio,video,optical,storage -s /bin/bash", username),
       Chroot("chpasswd", username \o <<":">> \o userPw),
       Chroot("sed -i /etc/sudoers", <<"%wheel ALL=(ALL:ALL) ALL">>),
       Chroot("echo >> /etc/sudoers",
              <<"%wheel ALL=(ALL:ALL) NOPASSWD: /usr/bin/pacman, /usr/bin/makepkg">>) >>

\* chroot_command: the two lines it prints round the command it runs.
ChrootPrints(cmd, ok) ==
    << <<"CHROOT: arch-chroot /mnt">> \o cmd.a,
       IF ok THEN <<"CHROOT: Command completed successfully">>
             ELSE <<"CHROOT: Command failed">> >>

\* setup_users: what it prints round its i-th command.
UsersStepPrints(i, cmd, username, ok) ==
    << CASE i = 1 -> <<"Setting root password...">>
         [] i = 2 -> <<"Creating user: ">> \o username
         [] i = 3 -> <<"Setting password for user: ">> \o username
         [] i = 4 -> <<"Configuring sudo access...">>
         [] OTHER -> <<"Configuring NOPASSWD for AUR installation...">> >>
    \o (IF i <= 3 THEN << <<"Executing: ">> \o cmd.a >> ELSE <<>>)
    \o ChrootPrints(cmd, ok)
    \o (IF ok
          THEN CASE i = 1 -> << <<"Root password set successfully">> >>
                 [] i = 2 -> << <<"User ">> \o username \o <<" created successfully">> >>
                 [] i = 3 -> << <<"Password for ">> \o username \o <<" set successfully">> >>
                 [] OTHER -> <<>>
          ELSE << CASE i = 1 -> <<"ERROR: Failed to set root password">>
                    [] i = 2 -> <<"ERROR: Failed to create user: ">> \o username
                    [] i = 3 -> <<"ERROR: Failed to set password for user: ">> \o username
                    [] i = 4 -> <<"Failed to configure sudo">>
                    [] OTHER -> <<"Failed to configure NOPASSWD">> >>)

\* setup_users: everything it writes to standard output when its failAt-th
\* command fails (0: none does).
SetupUsersPrints(username, rootPw, userPw, failAt) ==
    LET list == UsersCmds(username, rootPw, userPw)
        n == IF failAt = 0 THEN Len(list) ELSE failAt
        upTo[i \in 0..n] ==
            IF i = 0 THEN << <<"Setting up users...">> >>
            ELSE upTo[i - 1] \o UsersStepPrints(i, list[i], username, failAt # i)
    IN  upTo[n] \o (IF failAt = 0 THEN << <<"Users configured successfully">> >>
                                   ELSE <<>>)

\* setup_bootloader: disk_path is always passed by the controller.
BootloaderCmds(uefi, disk) ==
    <<IF uefi
        THEN Chroot("grub-install --target=x86_64-efi --efi-directory=/boot", <<>>)
        ELSE Chroot("grub-install --target=i386-pc", <<disk>>)>>
    \o <<Chroot("grub-mkconfig -o /boot/grub/grub.cfg", <<>>)>>

\* ---------------------------------------------- phase2_system_configuration()
Phase2Steps ==
    << Step("Setting up timezone...", "current"),
       Step("Configuring locales...", "pending"),
       Step("Setting hostname and network...", "pending"),
       Step("Creating users and passwords...", "pending"),
       Step("Installing bootloader...", "pending") >>

Phase2CompletionLines ==
    << Plain("Phase 2 Configuration Complete!"),
       Plain(""),
       Plain("System is now fully configured:"),
       Plain("  v Timezone and locales set"),
       Plain("  v Hostname and network configured"),
       Plain("  v Users and passwords created"),
       Plain("  v GRUB bootloader installed"),
       Plain("  v System ready to boot"),
       Plain(""),
       Plain("Next phases will include:"),
       Plain("  Essential software installation"),
       Plain("  Hyprland desktop environment"),
       Plain("  Personal dotfiles and customization"),
       Plain(""),
       Plain("System installation completed successfully!") >>

\* run(): a key ends completion(); phase2_system_configuration() starts.
Phase1DoneKey ==
    /\ pc = "phase1_done_info"
    /\ entered' = Append(entered, "PostInstallConfig")
    /\ steps' = Phase2Steps
    /\ progress' = Phase2Steps
    /\ screen' = ShowProgress("System Configuration", Phase2Steps)
    /\ cmds' = <<>>
    /\ pc' = "setup_timezone"
    /\ UNCHANGED <<tuiVars, drew, stdout, exc, exitCode, config, selected, disks,
                   pwVars, results, calls, confirm_key, dlg>>

\* phase2: setup_timezone(timezone).
SetupTimezone ==
    /\ pc = "setup_timezone"
    /\ \E failAt \in 0..Len(TimezoneCmds(config["timezone"])) :
         /\ cmds' = cmds \o RunUntilFailure(TimezoneCmds(config["timezone"]), failAt)
         /\ calls' = Append(calls, Call("setup_timezone", config["timezone"], failAt = 0))
         /\ StepEnded(failAt = 0, "System Configuration",
                      SetStep(SetStep(steps, 1, "Timezone configured", "completed"),
                              2, "Configuring locales...", "current"),
                      "setup_locales", "Configuration Failed", "Failed to setup timezone")
    /\ UNCHANGED <<tuiVars, drew, stdout, exc, exitCode, selected, disks,
                   pwVars, entered, results, confirm_key, dlg>>

\* phase2: setup_locales(locale).
SetupLocales ==
    /\ pc = "setup_locales"
    /\ \E failAt \in 0..Len(LocaleCmds(config["locale"])) :
         /\ cmds' = cmds \o RunUntilFailure(LocaleCmds(config["locale"]), failAt)
         /\ calls' = Append(calls, Call("setup_locales", config["locale"], failAt = 0))
         /\ StepEnded(failAt = 0, "System Configuration",
                      SetStep(SetStep(steps, 2, "Locales configured", "completed"),
                              3, "Setting hostname and network...", "current"),
                      "setup_hostname", "Configuration Failed", "Failed to setup locales")
    /\ UNCHANGED <<tuiVars, drew, stdout, exc, exitCode, selected, disks,
                   pwVars, entered, results, confirm_key, dlg>>

\* phase2: setup_hostname(hostname); the step stays current for the network.
SetupHostname ==
    /\ pc = "setup_hostname"
    /\ \E failAt \in 0..Len(HostnameCmds(config["hostname"])) :
         /\ cmds' = cmds \o RunUntilFailure(HostnameCmds(config["hostname"]), failAt)
         /\ calls' = Append(calls, Call("setup_hostname", config["hostname"], failAt = 0))
         /\ IF failAt = 0
              THEN /\ pc' = "setup_network"
                   /\ UNCHANGED <<steps, progress, screen, config>>
              ELSE StepEnded(FALSE, "System Configuration", steps, pc,
                             "Configuration Failed", "Failed to setup hostname")
    /\ UNCHANGED <<tuiVars, drew, stdout, exc, exitCode, selected, disks,
                   pwVars, entered, results, confirm_key, dlg>>

\* phase2: setup_network().
SetupNetwork ==
    /\ pc = "setup_network"
    /\ \E failAt \in 0..Len(NetworkCmds) :
         /\ cmds' = cmds \o RunUntilFailure(NetworkCmds, failAt)
         /\ calls' = Append(calls, Call("setup_network", <<>>, failAt = 0))
         /\ StepEnded(failAt = 0, "System Configuration",
                      SetStep(SetStep(steps, 3, "Hostname and network configured",
                                      "completed"),
                              4, "Creating users and passwords...", "current"),
                      "setup_users", "Configuration Failed", "Failed to setup network")
    /\ UNCHANGED <<tuiVars, drew, stdout, exc, exitCode, selected, disks,
                   pwVars, entered, results, confirm_key, dlg>>

\* phase2: setup_users(username, root_password, user_password).
SetupUsers ==
    /\ pc = "setup_users"
    /\ LET list == UsersCmds(config["username"], config["root_password"],
                             config["user_password"]) IN
       \E failAt \in 0..Len(list) :
         /\ cmds' = cmds \o RunUntilFailure(list, failAt)
         /\ calls' = Append(calls, Call("setup_users", config["username"], failAt = 0))
         /\ StepEnded(failAt = 0, "System Configuration",
                      SetStep(SetStep(steps, 4, "Users and passwords configured",
                                      "completed"),
                              5, "Installing bootloader...", "current"),
                      "setup_bootloader", "Configuration Failed", "Failed to setup users")
    /\ UNCHANGED <<tuiVars, drew, stdout, exc, exitCode, selected, disks,
                   pwVars, entered, results, confirm_key, dlg>>

\* phase2: setup_bootloader(uefi, disk); on success the phase returns True
\* and phase2_completion() shows its screen.
SetupBootloader ==
    /\ pc = "setup_bootloader"
    /\ LET list == BootloaderCmds(config["uefi"], config["disk"]) IN
       \E failAt \in 0..Len(list) :
         /\ cmds' = cmds \o RunUntilFailure(list, failAt)
         /\ calls' = Append(calls, Call("setup_bootloader",
                                        <<Firmware(config["uefi"]), config["disk"]>>,
                                        failAt = 0))
         /\ IF failAt = 0
              THEN /\ steps' = SetStep(steps, 5, "Bootloader installed", "completed")
                   /\ progress' = steps'
                   /\ Returned(TRUE)
                   /\ screen' = ShowInfoScreen("Phase 2 Complete!",
                                               Phase2CompletionLines, height, TRUE)
                   /\ pc' = "phase2_done_info"
                   /\ UNCHANGED config
              ELSE /\ StepEnded(FALSE, "System Configuration", steps, pc,
                                "Configuration Failed", "Failed to setup bootloader")
                   /\ UNCHANGED results
    /\ UNCHANGED <<tuiVars, drew, stdout, exc, exitCode, selected, disks,
                   pwVars, entered, confirm_key, dlg>>

\* ----------------------------------------- utils/software.py, utils/dotfiles.py
EssentialPackages ==
    << "git", "base-devel", "nvm", "neovim", "ripgrep", "fzf", "gcc", "waybar",
       "hyprpaper", "hyprsunset", "swaync", "zsh", "ghostty", "lsd",
       "ttf-jetbrains-mono-nerd", "discord", "lazygit", "unzip", "stow",
       "network-manager-applet", "wireless_tools", "hyprland", "sddm", "pipewire",
       "pipewire-audio", "pipewire-pulse", "wireplumber", "seatd" >>

AmdPackages ==
    << "libva-mesa-driver", "mesa", "vulkan-radeon", "xf86-video-amdgpu",
       "xf86-video-ati", "xorg-server", "xorg-xinit" >>

AurPackages == << "zen-browser-bin", "wshowkeys-mao-git", "hyprshot" >>

Services == << "sddm", "NetworkManager", "pipewire", "wireplumber", "seatd" >>

\* install_packages: pacman for official packages, yay as the user for AUR.
InstallPackages(packages, useAur, username) ==
    IF useAur
      THEN Chroot("sudo -u yay -S --needed --noconfirm", username \o packages)
      ELSE Chroot("pacman -S --needed --noconfirm", packages)

\* One entry of a phase's step list: its name, the function it calls, the
\* commands that function runs and the positions whose result it ignores.
PhaseStep(name, f, list, unchecked) ==
    [name |-> name, f |-> f, cmds |-> list, unchecked |-> unchecked]

\* phase3_install_essential_software: the step list.
SoftwareSteps(username) ==
    << PhaseStep("Installing essential packages", "install_essential_packages",
                 <<InstallPackages(EssentialPackages, FALSE, <<>>)>>, {}),
       PhaseStep("Installing AMD graphics drivers", "install_amd_graphics_drivers",
                 <<InstallPackages(AmdPackages, FALSE, <<>>)>>, {}),
       PhaseStep("Setting up AUR helper (yay)", "setup_aur_helper",
                 << InstallPackages(<<"git", "base-devel">>, FALSE, <<>>),
                    Chroot("rm -rf /home/yay", username),
                    Chroot("sudo -u git clone https://aur.archlinux.org/yay.git", username),
                    Chroot("sudo -u bash -c makepkg -si --noconfirm", username),
                    Chroot("rm -rf /home/yay", username) >>, {2, 5}),
       PhaseStep("Installing AUR packages", "install_aur_packages",
                 <<InstallPackages(AurPackages, TRUE, username)>>, {}),
       PhaseStep("Installing oh-my-zsh", "install_ohmyzsh",
                 <<Chroot("sudo -u git clone https://github.com/ohmyzsh/ohmyzsh",
                          username)>>, {}),
       PhaseStep("Changing shell to zsh", "change_shell_to_zsh",
                 <<Chroot("chsh -s $(which zsh)", username)>>, {}),
       PhaseStep("Enabling system services", "enable_services",
                 [i \in 1..Len(Services) |-> Chroot("systemctl enable", <<Services[i]>>)],
                 {}) >>

\* phase4_dotfiles_and_development: the step list.
DotfilesSteps(username) ==
    << PhaseStep("Cloning dotfiles repository", "clone_dotfiles",
                 <<Chroot("sudo -u git clone https://github.com/armando-rios/dotfiles.git",
                          username)>>, {}),
       PhaseStep("Setting up symbolic links with stow", "setup_symbolic_links",
                 << Chroot("sudo -u bash -c rm -rf .config .zshrc .tmux.conf .ssh",
                           username),
                    Chroot("sudo -u bash -c cd .dotfiles && stow .", username) >>, {1}),
       PhaseStep("Installing Node.js with nvm", "install_nodejs_with_nvm",
                 <<Chroot("sudo -u zsh -c nvm install --lts && nvm use --lts",
                          username)>>, {}),
       PhaseStep("Installing Bun.js", "install_bun",
                 <<Chroot("sudo -u bash -c curl -fsSL https://bun.sh/install | bash",
                          username)>>, {}) >>

\* The positions at which a step's function can fail: 0 is success.
FailurePoints(step) == {0} \cup ((1..Len(step.cmds)) \ step.unchecked)

\* The print() calls of one pass of a phase's loop: the banner before the
\* first step, the step's header, its verdict, the banner after the last.
LoopPrints(banner, i, n, step, ok) ==
    (IF i = 1 THEN <<Printed("=== Phase ===", banner, NoExc)>> ELSE <<>>)
    \o <<Printed("--- ---", step.name, NoExc)>>
    \o (IF ok THEN <<Printed("completed successfully", step.name, NoExc)>>
              ELSE <<Printed("ERROR: Failed at step: ", step.name, NoExc)>>)
    \o (IF ok /\ i = n THEN <<Printed("=== completed successfully! ===", banner, NoExc)>>
                        ELSE <<>>)

SoftwarePcs == << "software_1", "software_2", "software_3", "software_4",
                  "software_5", "software_6", "software_7" >>

DotfilesPcs == << "dotfiles_1", "dotfiles_2", "dotfiles_3", "dotfiles_4" >>

Phase3CompletionLines ==
    << Plain("Phase 3 Software Installation Complete!"),
       Plain(""),
       Plain("Software installed:"),
       Plain("  v Essential development tools"),
       Plain("  v Hyprland desktop environment"),
       Plain("  v AMD graphics drivers"),
       Plain("  v Audio system (pipewire)"),
       Plain("  v AUR helper (yay) and packages"),
       Plain("  v oh-my-zsh shell setup"),
       Plain(""),
       Plain("Next phases will include:"),
       Plain("  Personal dotfiles and customization"),
       Plain("  Additional development tools"),
       Plain(""),
       Plain("System ready for desktop use!") >>

Phase4CompletionLines ==
    << Plain("Phase 4 Dotfiles & Development Complete!"),
       Plain(""),
       Plain("Development environment ready:"),
       Plain("  v Personal dotfiles cloned and linked"),
       Plain("  v Configuration files (hypr, nvim, zsh, etc.)"),
       Plain("  v Node.js LTS installed with nvm"),
       Plain("  v Bun.js runtime installed"),
       Plain("  v SSH keys and shell configuration"),
       Plain(""),
       Plain("Next phases will include:"),
       Plain("  Additional development tools"),
       Plain("  Final system optimizations"),
       Plain(""),
       Plain("Development environment fully configured!") >>

\* run(): a key ends phase2_completion(); phase3_software_installation()
\* starts its loop.
Phase2DoneKey ==
    /\ pc = "phase2_done_info"
    /\ entered' = Append(entered, "SoftwareInstall")
    /\ cmds' = <<>>
    /\ pc' = SoftwarePcs[1]
    /\ UNCHANGED <<tuiVars, screen, drew, stdout, exc, exitCode, config, selected,
                   disks, pwVars, stepVars, results, calls, confirm_key, dlg>>

\* phase3_install_essential_software: one pass of the loop over the steps; a
\* failed step returns False at once, the last step done returns True and
\* phase3_completion() shows its screen.
SoftwareStep ==
    \E i \in 1..Len(SoftwarePcs) :
      /\ pc = SoftwarePcs[i]
      /\ LET step == SoftwareSteps(config["username"])[i] IN
         \E failAt \in FailurePoints(step) :
           /\ cmds' = cmds \o RunUntilFailure(step.cmds, failAt)
           /\ calls' = Append(calls, Call(step.f, <<>>, failAt = 0))
           /\ stdout' = stdout \o LoopPrints("Phase 3", i, Len(SoftwarePcs), step, failAt = 0)
           /\ IF failAt # 0
                THEN /\ Returned(FALSE)
                     /\ Finish(NoExc, stdscr, termMode)
                     /\ UNCHANGED screen
              ELSE IF i < Len(SoftwarePcs)
                THEN /\ pc' = SoftwarePcs[i + 1]
                     /\ UNCHANGED <<termMode, exc, exitCode, results, screen>>
              ELSE /\ Returned(TRUE)
                   /\ screen' = ShowInfoScreen("Software Installation Complete!",
                                               Phase3CompletionLines, height, TRUE)
                   /\ pc' = "phase3_done_info"
                   /\ UNCHANGED <<termMode, exc, exitCode>>
      /\ UNCHANGED <<stdscr, height, width, drew, config, selected, disks,
                     pwVars, stepVars, entered, confirm_key, dlg>>

\* run(): a key ends phase3_completion(); phase4_dotfiles_setup() starts.
Phase3DoneKey ==
    /\ pc = "phase3_done_info"
    /\ entered' = Append(entered, "DotfilesSetup")
    /\ cmds' = <<>>
    /\ pc' = DotfilesPcs[1]
    /\ UNCHANGED <<tuiVars, screen, drew, stdout, exc, exitCode, config, selected,
                   disks, pwVars, stepVars, results, calls, confirm_key, dlg>>

\* phase4_dotfiles_and_development: one pass of the loop over the steps.
DotfilesStep ==
    \E i \in 1..Len(DotfilesPcs) :
      /\ pc = DotfilesPcs[i]
      /\ LET step == DotfilesSteps(config["username"])[i] IN
         \E failAt \in FailurePoints(step) :
           /\ cmds' = cmds \o RunUntilFailure(step.cmds, failAt)
           /\ calls' = Append(calls, Call(step.f, <<>>, failAt = 0))
           /\ stdout' = stdout \o LoopPrints("Phase 4", i, Len(DotfilesPcs), step, failAt = 0)
           /\ IF failAt # 0
                THEN /\ Returned(FALSE)
                     /\ Finish(NoExc, stdscr, termMode)
                     /\ UNCHANGED screen
              ELSE IF i < Len(DotfilesPcs)
                THEN /\ pc' = DotfilesPcs[i + 1]
                     /\ UNCHANGED <<termMode, exc, exitCode, results, screen>>
              ELSE /\ Returned(TRUE)
                   /\ screen' = ShowInfoScreen("Development Setup Complete!",
                                               Phase4CompletionLines, height, TRUE)
                   /\ pc' = "phase4_done_info"
                   /\ UNCHANGED <<termMode, exc, exitCode>>
      /\ UNCHANGED <<stdscr, height, width, drew, config, selected, disks,
                     pwVars, stepVars, entered, confirm_key, dlg>>

\* run(): a key ends phase4_completion(); run() returns after the last phase.
Phase4DoneKey ==
    /\ pc = "phase4_done_info"
    /\ entered' = Append(entered, "Done")
    /\ Finish(NoExc, stdscr, termMode)
    /\ UNCHANGED <<stdscr, height, width, screen, drew, stdout, config, selected,
                   disks, pwVars, stepVars, results, logVars, confirm_key, dlg>>

\* ------------------------------------------------- interruption and errors
\* Ctrl-C while run() is inside its try block: a password prompt unwinds
\* through its finally clause first; `except KeyboardInterrupt: pass`, then
\* the finally clause of run().
Interrupt ==
    /\ pc \notin {"init_screen", "unexpected_info", "exited"}
    /\ Raise(KeyboardInterrupt, stdscr,
             IF pc \in PasswordPcs THEN PasswordReacquire(termMode) ELSE termMode,
             height)
    /\ UNCHANGED <<stdscr, height, width, config, selected, disks,
                   pwVars, stepVars, entered, results, logVars, confirm_key, dlg>>

\* End of input at a password prompt: getpass raises EOFError, the prompt's
\* finally clause re-enters curses and run() shows the error screen.
PasswordEOF ==
    /\ pc \in PasswordPcs
    /\ Raise(EOFError, stdscr, PasswordReacquire(termMode), height)
    /\ UNCHANGED <<stdscr, height, width, config, selected,
                   disks, pwVars, stepVars, entered, results, logVars, confirm_key, dlg>>

\* run(): a key ends the "Unexpected Error" screen; finally, return.
UnexpectedInfoKey ==
    /\ pc = "unexpected_info"
    /\ Finish(exc, stdscr, termMode)
    /\ UNCHANGED <<stdscr, height, width, screen, drew, stdout, config, selected,
                   disks, pwVars, stepVars, entered, results, logVars, confirm_key, dlg>>

\* run(): the "Unexpected Error" screen itself is interrupted; the bare
\* except prints the message instead.
UnexpectedInfoInterrupt ==
    /\ pc = "unexpected_info"
    /\ stdout' = Append(stdout, Printed("Unexpected error: ", exc.text, exc))
    /\ Finish(exc, stdscr, termMode)
    /\ UNCHANGED <<stdscr, height, width, screen, drew, config, selected, disks,
                   pwVars, stepVars, entered, results, logVars, confirm_key, dlg>>

Next ==
    \/ InitScreen
    \/ WelcomeInfoKey
    \/ WelcomeConfirmKey
    \/ CheckInternet
    \/ SyncClock
    \/ DetectUefi
    \/ ListDisks
    \/ ErrorInfoKey
    \/ DiskMenuKey
    \/ DiskConfirmKey
    \/ HostnameInput
    \/ UsernameInput
    \/ TimezoneMenuKey
    \/ TimezoneCustomInput
    \/ LocaleMenuKey
    \/ LocaleCustomInput
    \/ RootPasswordInput
    \/ RootPasswordConfirm
    \/ RootRetryKey
    \/ UserPasswordInput
    \/ UserPasswordConfirm
    \/ UserRetryKey
    \/ SummaryConfirmKey
    \/ CleanupDisk
    \/ CreatePartitionsStep
    \/ FormatPartitions
    \/ MountPartitions
    \/ Pacstrap
    \/ GenerateFstab
    \/ Phase1DoneKey
    \/ SetupTimezone
    \/ SetupLocales
    \/ SetupHostname
    \/ SetupNetwork
    \/ SetupUsers
    \/ SetupBootloader
    \/ Phase2DoneKey
    \/ SoftwareStep
    \/ Phase3DoneKey
    \/ DotfilesStep
    \/ Phase4DoneKey
    \/ Interrupt
    \/ PasswordEOF
    \/ UnexpectedInfoKey
    \/ UnexpectedInfoInterrupt

Spec == Init /\ [][Next]_vars

\* ------------------------------------------------- dialogs on their own
\* The TUI dialogs and get_passwords()'s loop driven by arbitrary input, apart
\* from the installer's phases: dlg holds the call's arguments, the input
\* consumed so far and what the call has returned.
\* ------------------------------------------------------------ safe_addstr
\* Characters of a drawn text: "a" takes one cell of the screen; "wide" is a
\* character the terminal draws in two cells, like the emoji that open the
\* lines of the welcome and phase-complete screens.
TextChars == {"a", "wide"}
CellWidth(ch) == IF ch = "wide" THEN 2 ELSE 1
Texts == UNION {[1..n -> TextChars] : n \in 0..MaxText}

\* stdscr.addstr from the cursor at (row, col) on an h x w window that does
\* not scroll: a character that does not fit in the rest of the row goes to
\* the start of the next one, the cursor wraps after the last column, and
\* curses.error is raised once the cursor would leave the bottom of the
\* window.  cells are the <<row, column>> pairs written.
RECURSIVE AddChars(_, _, _, _, _)
AddChars(row, col, text, h, w) ==
    IF text = <<>> THEN [cells |-> {}, error |-> FALSE]
    ELSE LET cw == CellWidth(Head(text))
             r0 == IF col + cw > w THEN row + 1 ELSE row
             c0 == IF col + cw > w THEN 0 ELSE col
             here == {<<r0, c0 + k>> : k \in 0..(cw - 1)}
             r1 == IF c0 + cw >= w THEN r0 + 1 ELSE r0
             c1 == IF c0 + cw >= w THEN 0 ELSE c0 + cw
         IN  IF r0 >= h THEN [cells |-> {}, error |-> TRUE]
             ELSE IF r1 >= h THEN [cells |-> here, error |-> TRUE]
             ELSE [cells |-> here \cup AddChars(r1, c1, Tail(text), h, w).cells,
                   error |-> AddChars(r1, c1, Tail(text), h, w).error]

\* stdscr.addstr(y, x, text): moving the cursor off the window is an error
\* and draws nothing.
Addstr(y, x, text, h, w) ==
    IF y >= 0 /\ y < h /\ x >= 0 /\ x < w
      THEN AddChars(y, x, text, h, w)
      ELSE [cells |-> {}, error |-> TRUE]

\* A safe_addstr with neither the bounds check nor the try/except.
SafeAddstr_Unguarded(y, x, text, h, w) ==
    [cells |-> Addstr(y, x, text, h, w).cells,
     error |-> Addstr(y, x, text, h, w).error,
     passed |-> text]

\* safe_addstr(y, x, text): cells written, whether an error reaches the
\* caller, and the text handed to addstr after clipping.
SafeAddstr(y, x, text, h, w) ==
    IF y >= 0 /\ y < h /\ x >= 0 /\ x < w
      THEN LET max_len == w - x - 1
               clipped == IF Len(text) > max_len THEN SubSeq(text, 1, max_len) ELSE text
           IN  [cells |-> Addstr(y, x, clipped, h, w).cells, error |-> FALSE,
                passed |-> clipped]
      ELSE [cells |-> {}, error |-> FALSE, passed |-> <<>>]

\* ------------------------------------------------- the render surface's state
\* Terminal sizes the window can have before and after a resize.
SurfaceSizes == {[h |-> h, w |-> w] : h \in {MinHeight, MinHeight + 1},
                                      w \in {MinWidth, MinWidth + 1}}

\* init_screen(): the curses calls it makes, in order.
InitScreenCalls ==
    << "initscr", "noecho", "cbreak", "keypad", "curs_set", "start_color", "init_pair",
       "getmaxyx" >>

\* show_password_input: the calls up to and including the release of the
\* surface.
PasswordShowCalls ==
    << "clear", "addstr", "addstr", "addstr", "addstr", "addstr", "addstr", "refresh",
       "endwin" >>

\* show_password_input: the calls of its finally clause.
PasswordFinallyCalls == << "initscr", "noecho", "cbreak", "keypad", "curs_set" >>

\* What getpass.getpass("") can end with.
GetpassOutcomes == {"value", "EOFError", "KeyboardInterrupt"}

\* Password values of a config handed to show_summary: none, or one of two
\* secrets that occur in no other entry of the config.
SecretAtoms == {"secret1", "secret2"}
Secrets == {<<>>} \cup {<<a>> : a \in SecretAtoms}

\* A config as basic_config() leaves it, before the passwords are stored.
SummaryBase(uefi) ==
    Put(Put(Put(Put(Put(Put(<<>>, "uefi", uefi), "disk", "/dev/sda"),
                    "hostname", DefaultHostname), "username", DefaultUsername),
            "timezone", <<"Europe/London">>), "locale", <<"en_GB.UTF-8">>)

\* The defaults show_text_input is called with: none, "arch", "user".
TextDefaults == {<<>>, DefaultHostname, DefaultUsername}

StreamValues == {<<>>, <<"ok123">>, <<"different">>, <<"match1">>}

\* The option labels of a long menu.
OptionLabels ==
    << "o01", "o02", "o03", "o04", "o05", "o06", "o07", "o08", "o09", "o10",
       "o11", "o12", "o13", "o14", "o15", "o16", "o17", "o18", "o19", "o20" >>

WindowOptions(n) == SubSeq(OptionLabels, 1, n)

DialogInit ==
    /\ Constructed
    /\ dlg \in
         {[kind |-> "credential", stream |-> st, pos |-> 0, at |-> "password",
           pw |-> <<>>, rejected |-> <<>>, value |-> <<>>] :
             st \in UNION {[1..n -> StreamValues] : n \in 0..MaxStream}}
         \cup
         UNION {{[kind |-> "menu", n |-> n, initial |-> i, sel |-> i, keys |-> <<>>,
                  done |-> FALSE, value |-> 0] : i \in 0..(n - 1)} :
                   n \in 1..MaxOptions}
         \cup
         {[kind |-> "text", default |-> d, submitted |-> <<>>, done |-> FALSE,
           value |-> <<>>] : d \in TextDefaults}
         \cup
         {[kind |-> "draw", h |-> GridHeight, w |-> GridWidth, called |-> FALSE,
           y |-> 0, x |-> 0, text |-> <<>>, cells |-> {}, error |-> FALSE,
           passed |-> <<>>]}
         \cup
         {[kind |-> "confirm", default |-> d, sel |-> ConfirmInitial(d), keys |-> <<>>,
           done |-> FALSE, value |-> FALSE] : d \in BOOLEAN}
         \cup
         {[kind |-> "summary", shown |-> FALSE, outA |-> {}, outB |-> {},
           cfgA |-> Put(Put(SummaryBase(u), "root_password", ra), "user_password", ua),
           cfgB |-> Put(Put(SummaryBase(u), "root_password", rb), "user_password", ub)] :
             u \in BOOLEAN, ra \in Secrets, ua \in Secrets, rb \in Secrets,
             ub \in Secrets}
         \cup
         {[kind |-> "surface", at |-> "idle", held |-> TRUE, cursor |-> "hidden",
           log |-> InitScreenCalls, term |-> size, geom |-> size, clip |-> size.w - 1,
           headers |-> 0] : size \in SurfaceSizes}
         \cup
         {[kind |-> "window", n |-> n, h |-> h, sel |-> 0, done |-> FALSE,
           shown |-> ShowMenu("Menu", WindowOptions(n), 0, h)] :
             n \in (MenuMaxVisible(MinHeight) + 1)..MaxWindowOptions,
             h \in MinHeight..MaxWindowHeight}
         \cup
         {[kind |-> "probe", disk |-> DiskNames[1], m |-> m, b |-> b, r |-> r, s |-> s,
           mounted |-> mt, hasPartition |-> hp, called |-> FALSE, verdict |-> FALSE,
           cmds |-> <<>>] :
             m \in ProbeMount, b \in ProbeBlkid, r \in ProbeRemovable, s \in ProbeSize,
             mt \in BOOLEAN, hp \in BOOLEAN}
         \cup
         {[kind |-> "users", username |-> DefaultUsername, rootA |-> ra, userA |-> ua,
           rootB |-> rb, userB |-> ub, failAt |-> f, ran |-> FALSE,
           outA |-> <<>>, outB |-> <<>>] :
             ra \in Secrets \ {<<>>}, ua \in Secrets \ {<<>>},
             rb \in Secrets \ {<<>>}, ub \in Secrets \ {<<>>},
             f \in 0..Len(UsersCmds(DefaultUsername, <<>>, <<>>))}

\* get_passwords(): one show_password_input() of a credential's loop and the
\* branch taken on what it returned; at the end of the input getpass raises.
CredentialPrompt ==
    /\ dlg.kind = "credential"
    /\ dlg.at \in {"password", "confirm"}
    /\ IF dlg.pos = Len(dlg.stream)
         THEN dlg' = [dlg EXCEPT !.at = "eof"]
       ELSE LET entry == dlg.stream[dlg.pos + 1] IN
         IF dlg.at = "password"
           THEN IF PasswordGiven(entry)
                  THEN dlg' = [dlg EXCEPT !.pos = @ + 1, !.pw = entry, !.at = "confirm"]
                  ELSE dlg' = [dlg EXCEPT !.pos = @ + 1, !.pw = entry,
                                          !.rejected = Append(@, "empty")]
         ELSE IF PasswordsMatch(dlg.pw, entry)
           THEN dlg' = [dlg EXCEPT !.pos = @ + 1, !.at = "done", !.value = dlg.pw]
         ELSE dlg' = [dlg EXCEPT !.pos = @ + 1, !.at = "password",
                                 !.rejected = Append(@, "mismatch")]
    /\ UNCHANGED <<pc, tuiVars, screen, drew, stdout, exc, exitCode, config, selected,
                   confirm_key, disks, pwVars, stepVars, entered, results, logVars>>

\* show_menu(title, options, selected) on its own: one getch() of the loop.
MenuKey ==
    /\ dlg.kind = "menu"
    /\ ~dlg.done
    /\ Len(dlg.keys) < MaxKeys
    /\ \E key \in MenuKeys :
         LET r == MenuStep(dlg.n, dlg.sel, key) IN
         dlg' = [dlg EXCEPT !.sel = r.sel, !.keys = Append(@, key),
                            !.done = r.done, !.value = r.value]
    /\ UNCHANGED <<pc, tuiVars, screen, drew, stdout, exc, exitCode, config, selected,
                   confirm_key, disks, pwVars, stepVars, entered, results, logVars>>

\* show_text_input(title, prompt, default) on its own: one textbox.edit() of
\* the loop.
TextSubmit ==
    /\ dlg.kind = "text"
    /\ ~dlg.done
    /\ Len(dlg.submitted) < MaxSubmits
    /\ \E raw \in Typed :
         LET r == TextInputStep(raw, dlg.default) IN
         dlg' = [dlg EXCEPT !.submitted = Append(@, raw), !.done = r.done,
                            !.value = r.value]
    /\ UNCHANGED <<pc, tuiVars, screen, drew, stdout, exc, exitCode, config, selected,
                   confirm_key, disks, pwVars, stepVars, entered, results, logVars>>

\* One safe_addstr(y, x, text) on a blank screen of dlg.h rows and dlg.w
\* columns, with coordinates in and just outside the screen.
SafeAddstrCall ==
    /\ dlg.kind = "draw"
    /\ ~dlg.called
    /\ \E y \in -1..dlg.h, x \in -1..dlg.w, text \in Texts :
         LET r == SafeAddstr(y, x, text, dlg.h, dlg.w) IN
         dlg' = [dlg EXCEPT !.called = TRUE, !.y = y, !.x = x, !.text = text,
                            !.cells = r.cells, !.error = r.error, !.passed = r.passed]
    /\ UNCHANGED <<pc, tuiVars, screen, drew, stdout, exc, exitCode, config, selected,
                   confirm_key, disks, pwVars, stepVars, entered, results, logVars>>

\* show_confirmation(title, message, default) on its own: one getch() of the
\* loop.
ConfirmKey ==
    /\ dlg.kind = "confirm"
    /\ ~dlg.done
    /\ Len(dlg.keys) < MaxKeys
    /\ \E key \in ConfirmKeys :
         LET r == ConfirmStep(dlg.sel, key) IN
         dlg' = [dlg EXCEPT !.sel = r.sel, !.keys = Append(@, key),
                            !.done = r.done, !.value = r.value]
    /\ UNCHANGED <<pc, tuiVars, screen, drew, stdout, exc, exitCode, config, selected,
                   confirm_key, disks, pwVars, stepVars, entered, results, logVars>>

\* show_summary(title, config) on two configs side by side: the lines each
\* one hands to show_info_screen, as that screen draws them.
SummaryPair ==
    /\ dlg.kind = "summary"
    /\ ~dlg.shown
    /\ dlg' = [dlg EXCEPT
                 !.shown = TRUE,
                 !.outA = ShowInfoScreen("Installation Summary", SummaryLines(dlg.cfgA),
                                         MinHeight, FALSE),
                 !.outB = ShowInfoScreen("Installation Summary", SummaryLines(dlg.cfgB),
                                         MinHeight, FALSE)]
    /\ UNCHANGED <<pc, tuiVars, screen, drew, stdout, exc, exitCode, config, selected,
                   confirm_key, disks, pwVars, stepVars, entered, results, logVars>>

\* show_password_input up to getpass: the prompt is drawn and refreshed, then
\* curses.endwin() hands the terminal back.
PasswordShow ==
    /\ dlg.kind = "surface"
    /\ dlg.at = "idle"
    /\ dlg.headers < MaxHeaders
    /\ dlg' = [dlg EXCEPT !.at = "reading", !.held = FALSE,
                          !.log = PasswordShowCalls, !.clip = dlg.geom.w - 1,
                          !.headers = @ + 1]
    /\ UNCHANGED <<pc, tuiVars, screen, drew, stdout, exc, exitCode, config, selected,
                   confirm_key, disks, pwVars, stepVars, entered, results, logVars>>

\* getpass ends, with a value or an exception; the finally clause runs.
PasswordRead ==
    /\ dlg.kind = "surface"
    /\ dlg.at = "reading"
    /\ \E outcome \in GetpassOutcomes :
         dlg' = [dlg EXCEPT !.at = IF outcome = "value" THEN "returned" ELSE "raised",
                            !.held = TRUE, !.cursor = "hidden",
                            !.log = dlg.log \o <<"getpass">> \o PasswordFinallyCalls]
    /\ UNCHANGED <<pc, tuiVars, screen, drew, stdout, exc, exitCode, config, selected,
                   confirm_key, disks, pwVars, stepVars, entered, results, logVars>>

\* The user resizes the terminal window.
TerminalResize ==
    /\ dlg.kind = "surface"
    /\ \E size \in SurfaceSizes \ {dlg.term} :
         dlg' = [dlg EXCEPT !.term = size]
    /\ UNCHANGED <<pc, tuiVars, screen, drew, stdout, exc, exitCode, config, selected,
                   confirm_key, disks, pwVars, stepVars, entered, results, logVars>>

\* draw_header(title), the start of every dialog's render: the grid is
\* cleared and the separator is clipped by safe_addstr against self.width.
DrawHeaderCall ==
    /\ dlg.kind = "surface"
    /\ dlg.at \in {"idle", "returned"}
    /\ dlg.headers < MaxHeaders
    /\ dlg' = [dlg EXCEPT !.at = "idle", !.clip = dlg.geom.w - 1, !.headers = @ + 1,
                          !.log = Append(dlg.log, "clear")]
    /\ UNCHANGED <<pc, tuiVars, screen, drew, stdout, exc, exitCode, config, selected,
                   confirm_key, disks, pwVars, stepVars, entered, results, logVars>>

\* show_menu on a list about as long as the screen is high: one getch() of
\* the loop and the render that follows it.
WindowKey ==
    /\ dlg.kind = "window"
    /\ ~dlg.done
    /\ \E key \in MenuKeys :
         LET r == MenuStep(dlg.n, dlg.sel, key) IN
         dlg' = [dlg EXCEPT !.sel = r.sel, !.done = r.done,
                            !.shown = IF r.done THEN @
                                      ELSE ShowMenu("Menu", WindowOptions(dlg.n),
                                                    r.sel, dlg.h)]
    /\ UNCHANGED <<pc, tuiVars, screen, drew, stdout, exc, exitCode, config, selected,
                   confirm_key, disks, pwVars, stepVars, entered, results, logVars>>

\* cleanup_disk(disk) on its own, for one outcome of every probe command:
\* the verdict of is_iso_device and the commands run.
CleanupDiskCall ==
    /\ dlg.kind = "probe"
    /\ ~dlg.called
    /\ dlg' = [dlg EXCEPT !.called = TRUE,
                          !.verdict = IsIsoDevice(dlg.m, dlg.b, dlg.r, dlg.s),
                          !.cmds = CleanupDiskCmds(dlg.disk, dlg.m, dlg.b, dlg.r, dlg.s,
                                                   dlg.mounted, dlg.hasPartition)]
    /\ UNCHANGED <<pc, tuiVars, screen, drew, stdout, exc, exitCode, config, selected,
                   confirm_key, disks, pwVars, stepVars, entered, results, logVars>>

\* setup_users(username, root_password, user_password) in two runs that
\* differ only in the passwords: what each writes to standard output.
SetupUsersPair ==
    /\ dlg.kind = "users"
    /\ ~dlg.ran
    /\ dlg' = [dlg EXCEPT
                 !.ran = TRUE,
                 !.outA = SetupUsersPrints(dlg.username, dlg.rootA, dlg.userA, dlg.failAt),
                 !.outB = SetupUsersPrints(dlg.username, dlg.rootB, dlg.userB, dlg.failAt)]
    /\ UNCHANGED <<pc, tuiVars, screen, drew, stdout, exc, exitCode, config, selected,
                   confirm_key, disks, pwVars, stepVars, entered, results, logVars>>

DialogNext ==
    \/ CredentialPrompt
    \/ MenuKey
    \/ TextSubmit
    \/ SafeAddstrCall
    \/ ConfirmKey
    \/ SummaryPair
    \/ PasswordShow
    \/ PasswordRead
    \/ TerminalResize
    \/ DrawHeaderCall
    \/ WindowKey
    \/ CleanupDiskCall
    \/ SetupUsersPair

DialogSpec == DialogInit /\ [][DialogNext]_vars

\* ===================================================================== claims
\* The phases of run(), in the order of its body, and Done after the last.
PhaseOrder ==
    << "Welcome", "SystemChecks", "DiskSelection", "ConfigCollection", "SummaryConfirm",
       "BaseInstall", "PostInstallConfig", "SoftwareInstall", "DotfilesSetup", "Done" >>

\* The user answered the last confirmation with Enter on the highlighted Yes.
AnsweredYes == confirm_key.key = "ENTER" /\ confirm_key.sel = 0

\* The summary confirmation has been answered (the phases after it have not
\* been answered yet, and none of them asks a confirmation).
SummaryAnswered ==
    /\ Len(entered) >= 5
    /\ entered[5] = "SummaryConfirm"
    /\ Len(results) >= 5

ListingCmd == Cmd("lsblk -dpno NAME,SIZE,MODEL | grep -v loop", <<>>)

\* A collaborator of the installation was invoked, or a command other than
\* the read-only disk listing was executed.
DestructiveInvoked ==
    \/ calls # <<>>
    \/ \E i \in 1..Len(cmds) : cmds[i] # ListingCmd

\* Whatever destructive was invoked, the summary had been answered Yes.
C1_NothingBeforeYes ==
    DestructiveInvoked => SummaryAnswered /\ AnsweredYes

\* The summary confirmation is first rendered with No highlighted.
C1_SummaryStartsOnNo ==
    (pc # "summary_confirm" /\ pc' = "summary_confirm")
        => /\ selected' = 1
           /\ Item("option", <<"No">>, "selected") \in screen'
           /\ Item("option", <<"Yes">>, "normal") \in screen'

\* C1: nothing destructive (cleanup_disk, partitioning, format, mount,
\* pacstrap, generate_fstab, any chroot command) is invoked before the summary
\* confirmation has been answered with Enter on Yes; that confirmation is
\* first rendered with No highlighted; answered No or escaped, nothing
\* destructive is ever invoked.
C1_NoDestructionBeforeConfirmation ==
    [](C1_NothingBeforeYes) /\ [][C1_SummaryStartsOnNo]_vars

\* C1 witness: the summary was answered Yes and cleanup_disk has been called.
C1_Witness ==
    /\ SummaryAnswered /\ AnsweredYes
    /\ calls # <<>> /\ calls[1].f = "cleanup_disk"
    /\ \E i \in 1..Len(cmds) : cmds[i].c = "swapoff -a"

\* cleanup_disk returned False: is_iso_device judged the selected disk to be
\* the installation medium (cleanup_disk has no other way to fail).
IsoRefused ==
    /\ calls # <<>>
    /\ calls[1].f = "cleanup_disk"
    /\ ~calls[1].ok

\* The commands is_iso_device itself runs to look at the disk.
ProbeNames ==
    {"mount | grep archiso", "blkid", "cat /sys/block/removable", "lsblk -b -o SIZE -n"}

\* C2: when is_iso_device is true for the selected disk, BaseInstall stops
\* before anything is done to it: no swapoff, unmount, kill-holders, wipe or
\* re-probe command and no partitioning, formatting, mounting or bootstrap is
\* ever issued, and the phase returns failure.
C2_InstallMediumRefused ==
    IsoRefused =>
        /\ Len(calls) = 1
        /\ \A i \in 1..Len(cmds) : cmds[i].c \in ProbeNames
        /\ pc \in {"error_info", "exited"}
        /\ entered[Len(entered)] = "BaseInstall"
        /\ (pc = "exited" /\ exc = NoExc =>
               Len(results) = Len(entered) /\ ~results[Len(results)])

\* C2 witness: the install medium was refused and install_system() returned.
C2_Witness ==
    /\ IsoRefused
    /\ pc = "exited" /\ exc = NoExc
    /\ ~results[Len(results)]
    /\ cmds # <<>>

\* The key that ended the last confirmation declined or escaped it.
Declined ==
    \/ confirm_key.key \in {"q", "ESC"}
    \/ (confirm_key.key = "ENTER" /\ confirm_key.sel # 0)

\* The phases entered are a prefix of the fixed order, all but the last of
\* them returned success, and a failure or a declined confirmation ends the run.
C3_OrderAndGate ==
    /\ Len(entered) <= Len(PhaseOrder)
    /\ entered = SubSeq(PhaseOrder, 1, Len(entered))
    /\ Len(results) <= Len(entered)
    /\ Len(results) >= Len(entered) - 1
    /\ \A i \in 1..Len(results) : i < Len(entered) => results[i]
    /\ (Len(results) = Len(entered) /\ results # <<>> /\ ~results[Len(results)]
           => pc = "exited")
    /\ (Declined => pc = "exited" /\ ~results[Len(results)]
                    /\ Len(results) = Len(entered))

\* The list of phases entered only grows, and not at all after a failure.
C3_OnlyForward ==
    /\ Len(entered') >= Len(entered)
    /\ SubSeq(entered', 1, Len(entered)) = entered
    /\ (results # <<>> /\ ~results[Len(results)] => entered' = entered)

\* C3: phases are entered only in the order Welcome, SystemChecks,
\* DiskSelection, ConfigCollection, SummaryConfirm, BaseInstall,
\* PostInstallConfig, SoftwareInstall, DotfilesSetup, Done, never going back;
\* a phase is entered only when every earlier one returned success; after a
\* failure or a cancellation (declined confirmation, escaped menu) no later
\* phase is entered.
C3_PhaseOrder == [](C3_OrderAndGate) /\ [][C3_OnlyForward]_vars

\* C3 witness: a run that was cancelled at the disk confirmation after two
\* successful phases.
C3_Witness ==
    /\ entered = SubSeq(PhaseOrder, 1, 3)
    /\ results = <<TRUE, TRUE, FALSE>>
    /\ Declined
    /\ pc = "exited"

\* The last collaborator invoked returned failure.
LastCallFailed == calls # <<>> /\ ~calls[Len(calls)].ok

\* The step of install_system() / phase2_system_configuration() in which a
\* collaborator is called.
StepOf(f) ==
    CASE f \in {"cleanup_disk", "create_uefi_partitions", "create_bios_partitions",
                "setup_timezone"} -> 1
      [] f \in {"format_partitions", "setup_locales"} -> 2
      [] f \in {"mount_partitions", "setup_hostname", "setup_network"} -> 3
      [] f \in {"pacstrap", "setup_users"} -> 4
      [] OTHER -> 5

Range(seq) == {seq[i] : i \in 1..Len(seq)}

CurrentPhase == entered[Len(entered)]

\* The failed step B of a status-list phase is shown as error, every step
\* before it as completed, every step after it as pending.
C4_StatusList ==
    LastCallFailed /\ CurrentPhase \in {"BaseInstall", "PostInstallConfig"} =>
        /\ Len(progress) = 5
        /\ \A i \in 1..5 :
             progress[i].status =
                 IF i < StepOf(calls[Len(calls)].f) THEN "completed"
                 ELSE IF i = StepOf(calls[Len(calls)].f) THEN "error"
                 ELSE "pending"

\* The failed step B of a printing phase is reported as failed, every step
\* before it as completed, and no later step is announced.
C4_PrintedList ==
    LastCallFailed /\ CurrentPhase \in {"SoftwareInstall", "DotfilesSetup"} =>
        LET list == IF CurrentPhase = "SoftwareInstall"
                      THEN SoftwareSteps(config["username"])
                      ELSE DotfilesSteps(config["username"])
            k == CHOOSE i \in 1..Len(list) : list[i].f = calls[Len(calls)].f
        IN /\ \A i \in 1..Len(list) :
                /\ (i < k <=> Printed("completed successfully", list[i].name, NoExc)
                                \in Range(stdout))
                /\ (i = k <=> Printed("ERROR: Failed at step: ", list[i].name, NoExc)
                                \in Range(stdout))
                /\ (i <= k <=> Printed("--- ---", list[i].name, NoExc) \in Range(stdout))

UefiCallOrder ==
    << <<"cleanup_disk">>, <<"create_uefi_partitions">>,
       <<"format_partitions", "uefi">>, <<"mount_partitions", "uefi">>,
       <<"pacstrap">>, <<"generate_fstab">>,
       <<"setup_timezone">>, <<"setup_locales">>, <<"setup_hostname">>,
       <<"setup_network">>, <<"setup_users">>, <<"setup_bootloader", "uefi">>,
       <<"install_essential_packages">>, <<"install_amd_graphics_drivers">>,
       <<"setup_aur_helper">>, <<"install_aur_packages">>, <<"install_ohmyzsh">>,
       <<"change_shell_to_zsh">>, <<"enable_services">>,
       <<"clone_dotfiles">>, <<"setup_symbolic_links">>, <<"install_nodejs_with_nvm">>,
       <<"install_bun">> >>

\* What a logged call contributes to the order: its function, and its
\* firmware argument when it has one.
CallShape(call) ==
    IF call.f \in {"format_partitions", "mount_partitions"} THEN <<call.f, call.a[2]>>
    ELSE IF call.f = "setup_bootloader" THEN <<call.f, call.a[1]>>
    ELSE <<call.f>>

\* Every phase so far returned success and no exception was caught.
AllSucceeded ==
    /\ exc = NoExc
    /\ \A i \in 1..Len(results) : results[i]
    /\ \A i \in 1..Len(calls) : calls[i].ok

\* C5: on a UEFI system with a disk that is not the install medium, every
\* collaborator succeeding and the user confirming everything, the run ends in
\* Done having invoked the collaborators exactly in the order cleanup,
\* partitionUEFI, format(uefi), mount(uefi), bootstrap, fstab, timezone,
\* locale, hostname, networking, users, bootloader(uefi), then the software
\* phase's steps, then the dotfiles phase's steps.
C5_UefiHappyPath ==
    /\ (pc = "exited" /\ AllSucceeded /\ Has(config, "uefi") /\ config["uefi"]
           => /\ entered = PhaseOrder
              /\ [i \in 1..Len(calls) |-> CallShape(calls[i])] = UefiCallOrder)
    /\ (AllSucceeded /\ Has(config, "uefi") /\ config["uefi"]
           => /\ Len(calls) <= Len(UefiCallOrder)
              /\ \A i \in 1..Len(calls) : CallShape(calls[i]) = UefiCallOrder[i])
    /\ ("Done" \in Range(entered) => pc = "exited" /\ AllSucceeded)

\* C5 witness: Done reached on UEFI firmware after all twenty-three calls.
C5_Witness ==
    /\ pc = "exited"
    /\ entered = PhaseOrder
    /\ config["uefi"]
    /\ Len(calls) = Len(UefiCallOrder)
    /\ AllSucceeded

SgdiskNames ==
    {"sgdisk --zap-all", "sgdisk --new=1:0:+1G --typecode=1:ef00",
     "sgdisk --new=1:0:+1M --typecode=1:ef02", "sgdisk --new=2:0:0 --typecode=2:8300"}

\* The program and target a logged command executes, whatever redirection
\* was appended to it.
Executes(cmd) == <<cmd.c, cmd.a[1]>>

\* C6: every destructive external command, in particular each sgdisk
\* partitioning command of create_uefi_partitions / create_bios_partitions, is
\* executed at most once per phase; after it fails it is not executed again.
C6_SgdiskAtMostOnce ==
    \A i, j \in 1..Len(cmds) :
        (i # j /\ cmds[i].c \in SgdiskNames /\ cmds[j].c \in SgdiskNames)
            => Executes(cmds[i]) # Executes(cmds[j])

\* C7: once init_screen has put the terminal into curses mode, the mode is
\* restored by the time run() has ended, on every path: completion, abort
\* after a failed or cancelled phase, keyboard interrupt anywhere (a password
\* prompt included), unexpected exception.
C7_TerminalRestored ==
    /\ (pc = "exited" => stdscr /\ termMode = "cooked")
    /\ (pc \notin PasswordPcs \cup {"init_screen", "exited"} => termMode = "curses")

\* C7 witness: run() has ended on a keyboard interrupt raised while a
\* password was being read, the terminal being outside curses at that moment.
C7_Witness ==
    /\ pc = "exited"
    /\ exc.kind = "KeyboardInterrupt"
    /\ exc.at \in PasswordPcs
    /\ termMode = "cooked"

\* A fatal error was caught by run(): an exception other than the interrupt.
FatalCaught == exc.kind = "Exception"

\* C8: the process exit status is 0 when the run completes or is cancelled
\* cleanly, and non-zero whenever a fatal error (undersized terminal or any
\* other exception) was caught at the top level.
C8_ExitStatusTellsFailure ==
    pc = "exited" => (exitCode # 0 <=> FatalCaught)

\* init_screen raised the undersized-terminal exception and run() caught it.
TooSmall == exc.text = TooSmallText

\* C9: initialisation fails exactly when width < 60 or height < 20 (60x20 is
\* accepted); the error carries the detected dimensions, reaches the top
\* level and is reported only by plain printed text, with no draw call on the
\* render surface, and no dialog or phase is started.
C9_UndersizedTerminal ==
    pc # "init_screen" =>
        /\ (TooSmall <=> (width < 60 \/ height < 20))
        /\ (width = 60 /\ height = 20 => ~TooSmall /\ entered # <<>>)
        /\ (TooSmall =>
              /\ exc.kind = "Exception"
              /\ exc.w = width /\ exc.h = height
              /\ pc = "exited"
              /\ Printed("Error: ", TooSmallText, [w |-> width, h |-> height])
                     \in Range(stdout)
              /\ ~drew
              /\ screen = {}
              /\ entered = <<>>
              /\ calls = <<>> /\ cmds = <<>> /\ config = <<>>)
        /\ (~TooSmall => Printed("TERMINAL TOO SMALL", "", NoExc) \notin Range(stdout))

\* C9 witness: a 60x19 terminal was refused and the run has ended.
C9_Witness ==
    /\ pc = "exited"
    /\ TooSmall
    /\ width = 60 /\ height = 19
    /\ Len(stdout) = 4

\* The root loop of get_passwords() ends only from its confirmation prompt,
\* with a non-empty password equal to its confirmation, which is the value
\* kept; a round is rejected only when its password is empty or differs from
\* its confirmation.
C10_RootLoop ==
    /\ (pc # "user_pw" /\ pc' = "user_pw" /\ pc # "user_retry_info"
           => /\ pc = "root_pw_confirm"
              /\ pw # <<>>
              /\ confirm_password' = pw
              /\ root_password' = pw)
    /\ (pc' = "root_retry_info" /\ pc # "root_retry_info"
           => \/ (pc = "root_pw" /\ pw' = <<>>)
              \/ (pc = "root_pw_confirm" /\ confirm_password' # pw))

\* The same for the user loop, whose end stores both passwords in config.
C10_UserLoop ==
    /\ (pc # "summary_confirm" /\ pc' = "summary_confirm"
           => /\ pc = "user_pw_confirm"
              /\ pw # <<>>
              /\ confirm_password' = pw
              /\ config'["user_password"] = pw
              /\ config'["root_password"] = root_password)
    /\ (pc' = "user_retry_info" /\ pc # "user_retry_info"
           => \/ (pc = "user_pw" /\ pw' = <<>>)
              \/ (pc = "user_pw_confirm" /\ confirm_password' # pw))

\* No empty credential is ever held or stored.
C10_Stored ==
    /\ (pc \in {"user_pw", "user_pw_confirm", "user_retry_info"} => root_password # <<>>)
    /\ (Has(config, "root_password") <=> Has(config, "user_password"))
    /\ (Has(config, "root_password")
           => /\ config["root_password"] # <<>>
              /\ config["user_password"] # <<>>
              /\ config["root_password"] = root_password
              /\ config["user_password"] = pw)

\* C10: for each credential the retry loop ends only on the first (password,
\* confirmation) pair whose entries are both non-empty and equal, and the
\* value stored is that pair's password; no empty password and no password
\* differing from its confirmation is ever accepted.
C10_PasswordLoop ==
    [](C10_Stored) /\ [][C10_RootLoop /\ C10_UserLoop]_vars

\* C10 witness: the root password was accepted after a rejected round.
C10_Witness ==
    /\ pc = "user_pw"
    /\ attempts = 1
    /\ root_password = <<"b">>
    /\ confirm_password = <<"b">>
    /\ pw = <<"b">>

\* The hidden-input stream of the example, fed to one credential.
ExampleStream ==
    << <<>>, <<"ok123">>, <<"ok123">>, <<"different">>, <<"match1">>, <<"match1">> >>

ExampleResolved ==
    dlg.kind = "credential" /\ dlg.stream = ExampleStream /\ dlg.at = "done"

\* C11 as stated: the stream ["", "ok123", "ok123", "different", "match1",
\* "match1"] resolves to "match1" after two failed rounds, the first rejected
\* as empty and the second as a mismatch.
C11_ResolvesToMatch1 ==
    ExampleResolved =>
        dlg.value = <<"match1">> /\ dlg.rejected = <<"empty", "mismatch">>

\* C11 amended: that stream resolves to "ok123" after one failed round; the
\* empty first entry is rejected without a confirmation being read, and the
\* second and third entries are a password and its matching confirmation.
C11_ResolvesToOk123 ==
    /\ (ExampleResolved =>
           dlg.value = <<"ok123">> /\ dlg.rejected = <<"empty">> /\ dlg.pos = 3)
    /\ (dlg.kind = "credential" /\ dlg.stream = ExampleStream => dlg.at # "eof")

\* C11 witness: the example stream has been resolved.
C11_Witness == ExampleResolved /\ dlg.pos = 3

\* ------------------------------------------------------------------- C12
IsMenu == dlg.kind = "menu"

\* The key of the latest press fed to the dialog.
LastKey == dlg.keys[Len(dlg.keys)]

C12_IndexInRange == IsMenu => dlg.sel \in 0..(dlg.n - 1)

C12_NoWrap ==
    [][(IsMenu /\ dlg' # dlg) =>
         LET key == dlg'.keys[Len(dlg'.keys)] IN
         /\ (key \in {"UP", "k"} /\ dlg.sel = 0) => dlg'.sel = 0
         /\ (key \in {"DOWN", "j"} /\ dlg.sel = dlg.n - 1) => dlg'.sel = dlg.n - 1]_vars

\* C12: in a menu of N >= 1 options the selection index stays within
\* [0, N-1] under every sequence of keys; Up/'k' at index 0 and Down/'j' at
\* index N-1 leave the index where it is (no wraparound).
C12_MenuSelectionBounded == []C12_IndexInRange /\ C12_NoWrap

C12_Witness ==
    /\ IsMenu
    /\ dlg.n = MaxOptions
    /\ dlg.initial = dlg.n - 2
    /\ dlg.keys = <<"j", "DOWN", "k">>
    /\ dlg.sel = dlg.n - 2

\* ------------------------------------------------------------------- C13
\* C13: in a menu, Escape or 'q' returns -1 (cancelled) from every selection
\* position and after every earlier sequence of keys, as an ordinary return
\* value: the dialog ends and no exception is pending.
C13_EscapeCancels ==
    (IsMenu /\ dlg.keys # <<>> /\ LastKey \in {"q", "ESC"}) =>
        /\ dlg.done
        /\ dlg.value = -1
        /\ exc = NoExc

C13_Witness ==
    /\ IsMenu
    /\ dlg.n = MaxOptions
    /\ dlg.keys = <<"j", "x", "DOWN", "ESC">>
    /\ dlg.sel = 2
    /\ dlg.done

\* ------------------------------------------------------------------- C14
\* The index reached from i by the presses of keys in order: each Up/'k' is
\* a decrement floored at 0, each Down/'j' an increment capped at n - 1, any
\* other key leaves the index alone.
RECURSIVE Replay(_, _, _)
Replay(n, i, keys) ==
    IF keys = <<>> THEN i
    ELSE LET j == IF Head(keys) \in {"UP", "k"} THEN (IF i - 1 < 0 THEN 0 ELSE i - 1)
                  ELSE IF Head(keys) \in {"DOWN", "j"}
                         THEN (IF i + 1 > n - 1 THEN n - 1 ELSE i + 1)
                  ELSE i
         IN  Replay(n, j, Tail(keys))

\* C14: in a menu, Enter or Space returns the index highlighted at that
\* moment, which is the initial index after each Up/'k' (decrement floored
\* at 0) and each Down/'j' (increment capped at len-1) pressed before it, in
\* the order they were pressed.
C14_EnterReturnsHighlighted ==
    (IsMenu /\ dlg.keys # <<>> /\ LastKey \in {"ENTER", "SPACE"}) =>
        /\ dlg.done
        /\ dlg.value = dlg.sel
        /\ dlg.value = Replay(dlg.n, dlg.initial, SubSeq(dlg.keys, 1, Len(dlg.keys) - 1))

C14_Witness ==
    /\ IsMenu
    /\ dlg.n = MaxOptions
    /\ dlg.initial = 1
    /\ dlg.keys = <<"DOWN", "j", "k", "SPACE">>
    /\ dlg.value = MaxOptions - 2

\* ------------------------------------------------------------------- C15
IsText == dlg.kind = "text"

\* The text of the latest submission, as typed.
LastSubmitted == dlg.submitted[Len(dlg.submitted)]

\* A submission with nothing in it but blanks.
Blank(text) == \A i \in 1..Len(text) : text[i] = " "

\* C15: a text input with a non-empty default answers an empty or
\* whitespace-only submission with exactly the default, never with an empty
\* string.
C15_EmptyYieldsDefault ==
    (IsText /\ dlg.default # <<>> /\ dlg.submitted # <<>> /\ Blank(LastSubmitted)) =>
        /\ dlg.done
        /\ dlg.value = dlg.default
        /\ dlg.value # <<>>

C15_Witness ==
    /\ IsText
    /\ dlg.default = <<"arch">>
    /\ dlg.submitted = <<<<" ">>>>
    /\ dlg.value = <<"arch">>

\* ------------------------------------------------------------------- C16
\* C16: a text input with no default does not end on an empty submission; it
\* asks again until something non-empty is submitted, so it never returns an
\* empty string.
C16_NoDefaultNeverEmpty ==
    (IsText /\ dlg.default = <<>> /\ dlg.done) => dlg.value # <<>>

\* ------------------------------------------------------------------- C17
IsDraw == dlg.kind = "draw" /\ dlg.called

OffScreen == dlg.x >= dlg.w \/ dlg.y >= dlg.h \/ dlg.x < 0 \/ dlg.y < 0

\* C17: a safe_addstr call with x >= width, y >= height, x < 0 or y < 0
\* leaves the character grid unchanged and raises no error to its caller.
C17_OffScreenIsNoOp ==
    (IsDraw /\ OffScreen) => (dlg.cells = {} /\ ~dlg.error)

C17_Witness ==
    /\ IsDraw
    /\ dlg.x = dlg.w
    /\ dlg.y = 0
    /\ dlg.text = <<"a", "a">>
    /\ dlg.cells = {}

\* ------------------------------------------------------------------- C18
\* C18: an in-range safe_addstr call writes at most width - x - 1 characters
\* of the text, so no cell at column >= width - 1 and no cell of any other
\* row is ever written.
C18_ClippedToRow ==
    (IsDraw /\ ~OffScreen) =>
        /\ Len(dlg.passed) <= dlg.w - dlg.x - 1
        /\ \A c \in dlg.cells : c[1] = dlg.y /\ c[2] < dlg.w - 1

\* ------------------------------------------------------------------- C19
IsConfirm == dlg.kind = "confirm"

\* C19: in a confirmation dialog, Escape or 'q' returns false (No) whatever
\* the default is and whichever option is highlighted when the key is
\* pressed.
C19_EscapeMeansNo ==
    (IsConfirm /\ dlg.keys # <<>> /\ LastKey \in {"q", "ESC"}) =>
        (dlg.done /\ dlg.value = FALSE)

C19_Witness ==
    /\ IsConfirm
    /\ dlg.default = FALSE
    /\ dlg.keys = <<"LEFT", "q">>
    /\ dlg.sel = 0
    /\ dlg.done

\* ------------------------------------------------------------------- C20
\* The option highlighted after the presses of keys, starting from option i:
\* Left/'h' goes to Yes (0) and Right/'l' to No (1), other keys move nothing.
RECURSIVE Highlight(_, _)
Highlight(i, keys) ==
    IF keys = <<>> THEN i
    ELSE Highlight(IF Head(keys) \in {"LEFT", "h"} THEN 0
                   ELSE IF Head(keys) \in {"RIGHT", "l"} THEN 1
                   ELSE i,
                   Tail(keys))

C20_StartsOnDefault ==
    (IsConfirm /\ dlg.keys = <<>>) => (dlg.sel = 0 <=> dlg.default)

C20_MovesBetweenOptions ==
    (IsConfirm /\ ~dlg.done) =>
        /\ dlg.sel \in {0, 1}
        /\ dlg.sel = Highlight(IF dlg.default THEN 0 ELSE 1, dlg.keys)

C20_EnterReturnsHighlighted ==
    (IsConfirm /\ dlg.keys # <<>> /\ LastKey = "ENTER") =>
        /\ dlg.done
        /\ dlg.value =
             (Highlight(IF dlg.default THEN 0 ELSE 1,
                        SubSeq(dlg.keys, 1, Len(dlg.keys) - 1)) = 0)

\* C20: a confirmation dialog starts with Yes highlighted iff its default is
\* yes; Left/'h' and Right/'l' move the highlight between the two options
\* without leaving them; Enter returns true iff Yes is the option highlighted
\* at that moment.
C20_ConfirmationDialog ==
    /\ C20_StartsOnDefault
    /\ C20_MovesBetweenOptions
    /\ C20_EnterReturnsHighlighted

C20_Witness ==
    /\ IsConfirm
    /\ dlg.default = FALSE
    /\ dlg.keys = <<"l", "h", "LEFT", "ENTER">>
    /\ dlg.value = TRUE

\* ------------------------------------------------------------------- C21
IsSummary == dlg.kind = "summary" /\ dlg.shown

\* The two configs agree on which passwords are set.
SameSetness ==
    /\ (dlg.cfgA["root_password"] = <<>>) <=> (dlg.cfgB["root_password"] = <<>>)
    /\ (dlg.cfgA["user_password"] = <<>>) <=> (dlg.cfgB["user_password"] = <<>>)

\* The password values occur nowhere in the drawn items.
NoSecretIn(out) ==
    \A item \in out : \A i \in 1..Len(item.text) : item.text[i] \notin SecretAtoms

\* C21: the lines the summary renders depend on each password only through
\* whether it is set: two configs that differ only in the values of their
\* non-empty passwords give the same summary output, and no password value
\* appears in it.
C21_SummaryMasksPasswords ==
    IsSummary =>
        /\ SameSetness => (dlg.outA = dlg.outB)
        /\ NoSecretIn(dlg.outA)
        /\ NoSecretIn(dlg.outB)

C21_Witness ==
    /\ IsSummary
    /\ dlg.cfgA["root_password"] = <<"secret1">>
    /\ dlg.cfgB["root_password"] = <<"secret2">>
    /\ dlg.cfgA["user_password"] = <<"secret2">>
    /\ dlg.cfgB["user_password"] = <<"secret1">>
    /\ dlg.outA = dlg.outB
    /\ Item("line", <<"Root Password:   ", "Set">>, "normal") \in dlg.outA

\* ------------------------------------------------------------------- C22
SummaryStarted == "SummaryConfirm" \in Range(entered)

\* The phases whose controller methods store an entry in self.config.
ConfigWritingPhases == {"SystemChecks", "DiskSelection", "ConfigCollection"}

\* C22: the config is written only by the controller's own methods and only
\* before the summary confirmation: from the moment SummaryConfirm starts
\* until the run ends, no step changes, adds or removes a config entry.
C22_ConfigFrozenAtSummary ==
    [][/\ SummaryStarted => config' = config
       /\ config' # config => (entered # <<>> /\ CurrentPhase \in ConfigWritingPhases)]_vars

C22_Witness ==
    /\ pc = "phase4_done_info"
    /\ SummaryStarted
    /\ Has(config, "user_password")
    /\ DOMAIN config = {"uefi", "disk", "hostname", "username", "timezone", "locale",
                        "root_password", "user_password"}

\* ------------------------------------------------------------------- C23
\* The step lists a phase holds: the one it updates and the one last shown.
StepLists == {steps, progress}

Count(list, status) == Cardinality({i \in DOMAIN list : list[i].status = status})

\* Finished steps come first, then at most one step that is current or
\* failed, then steps still pending.
InPipelineOrder(list) ==
    \A i \in DOMAIN list, j \in DOMAIN list :
        i < j => /\ list[i].status \in {"current", "error", "pending"}
                      => list[j].status = "pending"
                 /\ list[j].status \in {"completed", "current", "error"}
                      => list[i].status = "completed"

\* The number of steps of the phase that owns the lists.
StepCount ==
    IF entered = <<>> \/ CurrentPhase = "Welcome" THEN 0
    ELSE IF CurrentPhase \in {"SystemChecks", "DiskSelection", "ConfigCollection",
                              "SummaryConfirm"}
      THEN Len(SystemCheckSteps)
    ELSE IF CurrentPhase = "BaseInstall" THEN Len(InstallSteps)
    ELSE Len(Phase2Steps)

\* C23: in every reachable state of a phase's step list at most one step is
\* current, the steps keep their positions (the list keeps its length and
\* its finished-then-running-then-pending order), and every step after a
\* failed step is still pending.
C23_StepListShape ==
    \A list \in StepLists :
        /\ Count(list, "current") <= 1
        /\ Len(list) = StepCount
        /\ InPipelineOrder(list)
        /\ \A i \in DOMAIN list, j \in DOMAIN list :
             (list[i].status = "error" /\ i < j) => list[j].status = "pending"

C23_Witness ==
    /\ pc = "error_info"
    /\ CurrentPhase = "BaseInstall"
    /\ progress[3].status = "error"
    /\ progress[4].status = "pending"
    /\ steps[3].status = "current"

\* ------------------------------------------------------------------- C24
\* The collaborator invoked by the step being taken, if any.
Invoked == calls'[Len(calls')]

\* The position of a collaborator's step in the list of the running phase.
OwnStep(f) ==
    IF CurrentPhase \in {"BaseInstall", "PostInstallConfig"} THEN StepOf(f)
    ELSE LET list == IF CurrentPhase = "SoftwareInstall"
                       THEN SoftwareSteps(config["username"])
                       ELSE DotfilesSteps(config["username"])
         IN  CHOOSE i \in 1..Len(list) : list[i].f = f

\* Collaborators whose step has a second collaborator still to run.
SharesStep == {"cleanup_disk", "setup_hostname"}

\* The step is current in the phase's list and on the progress screen.
MarkedAndRendered(k) ==
    /\ k \in DOMAIN steps
    /\ steps[k].status = "current"
    /\ progress = steps
    /\ Item(StatusGlyph("current"), steps[k].label, StatusStyle("current")) \in screen

\* C24: in every pipeline phase (BaseInstall, PostInstallConfig,
\* SoftwareInstall, DotfilesSetup), before a collaborator action is invoked
\* its own step has been marked current and the progress screen has been
\* rendered with that status; after the action the step is marked completed
\* on success or error on failure.
C24_MarkRenderInvokeMark ==
    [][Len(calls') = Len(calls) + 1 =>
         LET k == OwnStep(Invoked.f) IN
         /\ MarkedAndRendered(k)
         /\ IF Invoked.ok
              THEN steps'[k].status = "completed"
                   \/ (Invoked.f \in SharesStep /\ steps'[k].status = "current")
              ELSE progress'[k].status = "error"]_vars

\* ------------------------------------------------------------------- C25
\* A step of the running phase has failed.
StepHasFailed ==
    LastCallFailed \/ \E i \in DOMAIN progress : progress[i].status = "error"

\* The screen holds a line that show_info_screen drew from an "ERROR: " line.
ErrorLineShown ==
    \E item \in screen : item.kind = "line" /\ item.style = "error" /\ item.text # <<>>

\* C25: whenever a step of any phase fails (system checks, base install,
\* system configuration, software, dotfiles), the failure is shown to the
\* user on an info screen with an ERROR-prefixed line naming it before the
\* run ends.
C25_FailureShownOnInfoScreen == StepHasFailed => ErrorLineShown

\* ------------------------------------------------------------------- C26
IsSurface == dlg.kind = "surface"

\* The curses calls show_password_input made after getpass ended.
AfterGetpass ==
    LET g == CHOOSE i \in 1..Len(dlg.log) : dlg.log[i] = "getpass"
    IN  {dlg.log[i] : i \in (g + 1)..Len(dlg.log)}

\* The call show_password_input made last before getpass was entered.
BeforeGetpass ==
    LET g == CHOOSE i \in 1..Len(dlg.log) : dlg.log[i] = "getpass"
    IN  dlg.log[g - 1]

\* C26: show_password_input releases the render surface before the secret
\* is read and neither draws nor refreshes while it is read; on every
\* return path, normal or exceptional, it reacquires the surface and
\* reinitializes its state, both the colour palette and the cursor
\* visibility, before any later rendering.
C26_PasswordSurfaceHandling ==
    /\ (IsSurface /\ dlg.at = "reading") =>
           (~dlg.held /\ dlg.log[Len(dlg.log)] = "endwin")
    /\ (IsSurface /\ dlg.at \in {"returned", "raised"}) =>
           /\ BeforeGetpass = "endwin"
           /\ dlg.held
           /\ dlg.cursor = "hidden"
           /\ {"initscr", "curs_set"} \subseteq AfterGetpass
           /\ {"start_color", "init_pair"} \subseteq AfterGetpass

\* ------------------------------------------------------------------- C27
\* C27: the geometry {height, width} used for clipping is recomputed on
\* every full redraw (every header draw), so after the terminal size has
\* changed, or after show_password_input has reacquired the surface, the
\* next redraw clips against the terminal's current size.
C27_GeometryFollowsTerminal ==
    [][(IsSurface /\ dlg'.headers = dlg.headers + 1) =>
          /\ dlg'.geom = dlg.term
          /\ dlg'.clip = dlg.term.w - 1]_vars

\* ------------------------------------------------------------------- C28
\* The positions of get_passwords() inside each credential's loop.
RootLoop == {"root_pw", "root_pw_confirm", "root_retry_info"}
UserLoop == {"user_pw", "user_pw_confirm", "user_retry_info"}

\* The step leaves the loop through its break: a non-empty password and an
\* equal confirmation.
LeftByMatch ==
    /\ pw # <<>>
    /\ confirm_password' = pw
    /\ \/ pc = "root_pw_confirm" /\ pc' = "user_pw" /\ root_password' = pw
       \/ pc = "user_pw_confirm" /\ pc' = "summary_confirm"
          /\ config'["user_password"] = pw

\* The step leaves the loop because Ctrl-C reached the control thread.
LeftByInterrupt == exc'.kind = "KeyboardInterrupt"

\* C28: the password retry loop has no attempt limit: after any number of
\* rejected rounds (empty or mismatching) the same credential is prompted
\* again, and the loop is left only by a matching non-empty pair or by a
\* terminal interrupt; no key or input value cancels it.
C28_LoopLeftOnlyByMatchOrInterrupt ==
    [][\A loop \in {RootLoop, UserLoop} :
         /\ (pc \in loop /\ pc' \notin loop) => (LeftByMatch \/ LeftByInterrupt)
         /\ (pc \in loop /\ attempts' = attempts + 1) =>
                pc' \in {"root_retry_info", "user_retry_info"} \cap loop
         /\ (pc \in loop /\ pc \in {"root_retry_info", "user_retry_info"}
                /\ pc' \in loop) =>
                pc' \in {"root_pw", "user_pw"}]_vars

\* ------------------------------------------------------------------- C29
\* The place of each position of basic_config() in the order of its prompts;
\* 0 for a position outside it.
PromptRank(p) ==
    CASE p = "hostname_input" -> 1
      [] p = "username_input" -> 2
      [] p \in {"timezone_menu", "timezone_custom"} -> 3
      [] p \in {"locale_menu", "locale_custom"} -> 4
      [] p \in RootLoop -> 5
      [] p \in UserLoop -> 6
      [] OTHER -> 0

\* The prompts come in order, none skipped and none revisited.
C29_PromptsInOrder ==
    [][/\ (PromptRank(pc) > 0 /\ PromptRank(pc') > 0) =>
              PromptRank(pc') \in {PromptRank(pc), PromptRank(pc) + 1}
       /\ (PromptRank(pc) = 0 /\ PromptRank(pc') > 0) => PromptRank(pc') = 1]_vars

\* The user-password prompt first appears in the step in which the root
\* password's confirmation matched a non-empty root password.
C29_UserAfterRootAccepted ==
    [][(pc \notin UserLoop /\ pc' \in UserLoop) =>
          /\ pc = "root_pw_confirm"
          /\ pc' = "user_pw"
          /\ pw # <<>>
          /\ confirm_password' = pw
          /\ root_password' = pw
          /\ Item("prompt", UserPrompt(config["username"]), "normal") \in screen']_vars

\* A root mismatch is followed by the error screen and then by the root
\* password prompt, not by the confirmation prompt.
C29_RootAgainAfterMismatch ==
    [][/\ (pc = "root_pw_confirm" /\ confirm_password' # pw /\ pc' \in RootLoop) =>
              pc' = "root_retry_info"
       /\ (pc = "root_retry_info" /\ pc' \in RootLoop) =>
              /\ pc' = "root_pw"
              /\ Item("prompt", RootPrompt, "normal") \in screen'
              /\ Item("prompt", RootConfirmPrompt, "normal") \notin screen']_vars

\* C29: basic_config() prompts strictly in the order hostname, username,
\* timezone, locale, root password, user password; the user-password prompt
\* never appears before the root password has been accepted, and after a
\* root-password mismatch the next prompt is the root password again, not
\* its confirmation.
C29_PromptOrder ==
    /\ C29_PromptsInOrder
    /\ C29_UserAfterRootAccepted
    /\ C29_RootAgainAfterMismatch

C29_Witness ==
    /\ pc = "user_pw"
    /\ attempts = 1
    /\ root_password = <<"a">>
    /\ confirm_password = <<"a">>
    /\ Item("prompt", UserPrompt(config["username"]), "normal") \in screen

\* ---------------------------------------------------------------- C30
IsChroot(cmd) == cmd.c = "arch-chroot /mnt"

Succeeded(f) == \E i \in 1..Len(calls) : calls[i].f = f /\ calls[i].ok

Bootstrapped ==
    /\ Succeeded("mount_partitions")
    /\ Succeeded("pacstrap")
    /\ Succeeded("generate_fstab")

\* The commands a step executes: what it adds to the phase's command log
\* (the log is emptied when a phase starts).
Executed ==
    IF Len(cmds') >= Len(cmds) /\ SubSeq(cmds', 1, Len(cmds)) = cmds
      THEN SubSeq(cmds', Len(cmds) + 1, Len(cmds'))
      ELSE cmds'

\* C30: no chroot command (a command run through arch-chroot /mnt by a step
\* of PostInstallConfig, SoftwareInstall or DotfilesSetup) is executed unless
\* mount_partitions, pacstrap and generate_fstab have each returned success
\* earlier in the run: a step that executes a chroot command starts in a
\* state whose call history holds the three successes, and a state whose
\* command log holds a chroot command holds them too.
C30_ChrootOnlyAfterBootstrap ==
    /\ []((\E i \in 1..Len(cmds) : IsChroot(cmds[i])) => Bootstrapped)
    /\ [][(\E i \in 1..Len(Executed) : IsChroot(Executed[i])) => Bootstrapped]_vars

C30_Witness ==
    /\ pc = DotfilesPcs[3]
    /\ \E i \in 1..Len(cmds) : IsChroot(cmds[i])
    /\ Bootstrapped
    /\ \E i \in 1..Len(calls) : calls[i].f = "setup_symbolic_links" /\ calls[i].ok

\* ---------------------------------------------------------------- C31
\* The screen items show_info_screen draws for the summary of cfg.
SummaryItems(cfg, h) ==
    {Item("line", InfoVisible(SummaryLines(cfg), h)[i].text,
          SeverityStyle(InfoVisible(SummaryLines(cfg), h)[i].sev)) :
       i \in 1..Len(InfoVisible(SummaryLines(cfg), h))}

OptionsShown ==
    \A i \in 1..Len(ConfirmOptions) :
      \E it \in screen : it.kind = "option" /\ it.text = <<ConfirmOptions[i]>>

\* C31: while the summary dialog waits for the proceed/abort key, the
\* configuration lines (system type, disk, hostname, username, timezone,
\* locale, password presence) are on the screen together with the two
\* confirmation options.
C31_SummaryVisibleWhileWaiting ==
    pc = "summary_confirm" =>
      /\ SummaryItems(config, height) \subseteq screen
      /\ OptionsShown

\* ---------------------------------------------------------------- C32
IsWindow == dlg.kind = "window"

Scrolls == dlg.n > MenuMaxVisible(dlg.h)

\* The indices of the options on the rendered screen.
ShownIdx ==
    {i \in 0..(dlg.n - 1) :
       \E it \in dlg.shown : it.kind = "option" /\ it.text = <<WindowOptions(dlg.n)[i + 1]>>}

IndicatorShown(which) == Item("indicator", <<which>>, "normal") \in dlg.shown

\* C32: for a menu with more options than max_visible = height - 6 and every
\* selection the keys can reach, the rendered window [start_idx, end_idx)
\* satisfies 0 <= start_idx < end_idx <= len(options), is exactly what is on
\* the screen and contains the selected index, which is drawn highlighted;
\* the up indicator is drawn iff start_idx > 0 and the down indicator iff
\* end_idx < len(options).
C32_WindowHoldsSelection ==
    (IsWindow /\ Scrolls) =>
      LET start == MenuStartIdx(dlg.n, dlg.sel, dlg.h)
          end == MenuEndIdx(dlg.n, dlg.sel, dlg.h)
      IN  /\ 0 <= start /\ start < end /\ end <= dlg.n
          /\ start <= dlg.sel /\ dlg.sel < end
          /\ ShownIdx = start..(end - 1)
          /\ Item("option", <<WindowOptions(dlg.n)[dlg.sel + 1]>>, "selected") \in dlg.shown
          /\ IndicatorShown("up") <=> start > 0
          /\ IndicatorShown("down") <=> end < dlg.n

C32_Witness ==
    /\ IsWindow /\ Scrolls
    /\ dlg.sel = dlg.n - MenuMaxVisible(dlg.h) \div 2
    /\ MenuMaxVisible(dlg.h) % 2 = 1
    /\ IndicatorShown("up")
    /\ ~IndicatorShown("down")

\* ---------------------------------------------------------------- C33
MenuRecognised == {"UP", "k", "DOWN", "j", "ENTER", "SPACE", "q", "ESC"}

ConfirmRecognised == {"LEFT", "h", "RIGHT", "l", "ENTER", "q", "ESC"}

\* The key a step of a menu or confirmation consumed.
Pressed == dlg'.keys[Len(dlg'.keys)]

KeyStep(kind) ==
    /\ dlg.kind = kind
    /\ dlg'.kind = kind
    /\ Len(dlg'.keys) = Len(dlg.keys) + 1

Ignored == dlg'.sel = dlg.sel /\ ~dlg'.done

\* C33: in a menu and in a confirmation a key outside the dialog's
\* recognised set leaves the selection unchanged and does not end the
\* dialog; Space ends a menu with the current selection and is ignored by
\* a confirmation.
C33_UnrecognisedKeysIgnored ==
    [][/\ (KeyStep("menu") /\ Pressed \notin MenuRecognised) => Ignored
       /\ (KeyStep("menu") /\ Pressed = "SPACE") =>
            dlg'.done /\ dlg'.value = dlg.sel /\ dlg'.sel = dlg.sel
       /\ (KeyStep("confirm") /\ Pressed \notin ConfirmRecognised) => Ignored
       /\ (KeyStep("confirm") /\ Pressed = "SPACE") => Ignored]_vars

C33_Witness ==
    /\ dlg.kind = "confirm"
    /\ dlg.keys = <<"RIGHT", "SPACE", "x">>
    /\ dlg.default
    /\ dlg.sel = 1
    /\ ~dlg.done

\* ---------------------------------------------------------------- C34
InternetFailed ==
    /\ Len(progress) = 3
    /\ progress[1] = Step("Internet connection check", "error")

ClockFailed ==
    /\ Len(steps) = 3
    /\ steps[2].label = <<"Clock sync failed (continuing anyway)">>

NotInterrupted == exc'.kind = "none"

\* A failed internet check: the error screen, then the end of the run, and
\* config['uefi'] is never set.
C34_InternetFailureAborts ==
    InternetFailed =>
      /\ ~Has(config, "uefi")
      /\ pc \in {"error_info", "exited"}
      /\ "DiskSelection" \notin Range(entered)
      /\ pc = "error_info" =>
           Item("line", <<"No internet connection detected!">>, "error") \in screen
      /\ (pc = "exited" /\ exc.kind = "none") => results[Len(results)] = FALSE

\* sync_clock() returning either result: its step is marked completed and
\* the detection of the system type is next.
C34_ClockFailureContinues ==
    [][(pc = "sync_clock" /\ NotInterrupted) =>
         /\ pc' = "detect_uefi"
         /\ steps'[2].status = "completed"
         /\ steps'[3] = Step("Detecting system type...", "current")
         /\ \A it \in screen' : it.style # "error"]_vars

\* After a failed clock synchronisation the system type is detected and
\* stored and system_checks() returns True.
C34_DetectedAfterClockFailure ==
    [][(pc = "detect_uefi" /\ ClockFailed /\ NotInterrupted) =>
         /\ Has(config', "uefi")
         /\ config'["uefi"] \in BOOLEAN
         /\ steps'[3].status = "completed"
         /\ results' = Append(results, TRUE)
         /\ pc' = "list_disks"]_vars

\* C34: in system_checks() a failed internet check ends the run after an
\* error screen with config['uefi'] unset, while a failed clock
\* synchronisation does not fail the phase: its step is marked completed,
\* the system type is detected and stored, and the phase returns True.
C34_SystemChecksFailures ==
    /\ []C34_InternetFailureAborts
    /\ C34_ClockFailureContinues
    /\ C34_DetectedAfterClockFailure

C34_Witness ==
    /\ pc = "list_disks"
    /\ ClockFailed
    /\ steps[2].status = "completed"
    /\ Has(config, "uefi")
    /\ results[Len(results)] = TRUE

\* ---------------------------------------------------------------- C35
TextKeys == {"hostname", "username", "timezone", "locale",
             "root_password", "user_password"}

ConfigComplete ==
    /\ Has(config, "disk") /\ config["disk"] # ""
    /\ \A k \in TextKeys : Has(config, k) /\ config[k] \notin {<<>>, None}
    /\ Has(config, "uefi") /\ config["uefi"] \in BOOLEAN

\* An empty (or missing) answer was stored for one of the collected keys.
EmptyAnswer == \E k \in TextKeys : Has(config, k) /\ config[k] \in {<<>>, None}

\* C35: whenever the controller is at the summary confirmation (and ever
\* after), config holds disk, hostname, username, timezone, locale,
\* root_password and user_password non-empty and uefi as a boolean; once an
\* empty value has been stored for one of them the run has ended with the
\* phase returning False and the summary is never reached.
C35_SummaryHasFullConfig ==
    /\ (pc = "summary_confirm" \/ SummaryStarted) => ConfigComplete
    /\ EmptyAnswer =>
         /\ pc = "exited"
         /\ ~SummaryStarted
         /\ results[Len(results)] = FALSE

C35_Witness ==
    /\ pc = "summary_confirm"
    /\ ConfigComplete
    /\ config["timezone"] = <<"x">>
    /\ config["locale"] = <<"x">>

\* ---------------------------------------------------------------- C36
IsProbe == dlg.kind = "probe"

PositiveMatch ==
    \/ dlg.m = "match"
    \/ dlg.b = "iso"
    \/ (dlg.r = "1" /\ dlg.s = "small")

NoProbeAnswered == dlg.m = "none" /\ dlg.b = "none" /\ dlg.r = "none"

\* The destructive part of cleanup_disk was run on the disk.
Wiped ==
    /\ Cmd("fuser -km", <<dlg.disk>>) \in Range(dlg.cmds)
    /\ Cmd("partprobe", <<dlg.disk>>) \in Range(dlg.cmds)
    /\ dlg.hasPartition => Cmd("wipefs -af", <<dlg.disk, "1">>) \in Range(dlg.cmds)

\* C36: the install-medium check fails open: is_iso_device returns true only
\* when one of its three probes (archiso mount source, ISO filesystem
\* signature, removable device under 64 GB) matches, and when every probe
\* command fails or prints nothing it returns false and cleanup_disk goes on
\* to the destructive cleanup of the disk.
C36_MediumCheckFailsOpen ==
    (IsProbe /\ dlg.called) =>
      /\ dlg.verdict => PositiveMatch
      /\ NoProbeAnswered => (~dlg.verdict /\ Wiped)
      /\ dlg.verdict => ~Wiped

C36_Witness ==
    /\ IsProbe /\ dlg.called
    /\ NoProbeAnswered
    /\ dlg.hasPartition
    /\ ~dlg.verdict
    /\ Wiped

\* ---------------------------------------------------------------- C37
PartitionFunctions == {"create_uefi_partitions", "create_bios_partitions"}

CallsOf(fs) == {i \in 1..Len(calls) : calls[i].f \in fs}

\* One partitioning function is called at most once, and it is the UEFI one
\* iff config['uefi']; the sgdisk type codes run are those of that scheme.
C37_OneScheme ==
    /\ Cardinality(CallsOf(PartitionFunctions)) <= 1
    /\ \A i \in CallsOf(PartitionFunctions) :
         /\ calls[i].f = "create_uefi_partitions" <=> config["uefi"]
         /\ calls[i].a = <<config["disk"]>>
    /\ CallsOf({"format_partitions"}) # {} =>
         Cardinality(CallsOf(PartitionFunctions)) = 1
    /\ \A i \in 1..Len(cmds) :
         /\ cmds[i].c = "sgdisk --new=1:0:+1G --typecode=1:ef00" => config["uefi"]
         /\ cmds[i].c = "sgdisk --new=1:0:+1M --typecode=1:ef02" => ~config["uefi"]

\* format_partitions, mount_partitions and setup_bootloader get the disk and
\* the flag the partitioning was chosen by.
C37_SameFlagAndDisk ==
    /\ \A i \in CallsOf({"format_partitions", "mount_partitions"}) :
         calls[i].a = <<config["disk"], Firmware(config["uefi"])>>
    /\ \A i \in CallsOf({"setup_bootloader"}) :
         calls[i].a = <<Firmware(config["uefi"]), config["disk"]>>
    /\ \A i \in CallsOf({"format_partitions", "mount_partitions", "setup_bootloader"}) :
         \E j \in CallsOf(PartitionFunctions) :
           /\ j < i
           /\ calls[j].ok
           /\ calls[j].f = PartitionFunction(config["uefi"])

\* The disk stored is the entry of the disk list at the index the menu
\* returned, the confirmation that follows starts on No, only Enter on Yes
\* lets the run go on, and the stored disk and flag never change.
C37_DiskChosenAndConfirmed ==
    [][/\ (pc = "disk_menu" /\ pc' = "disk_confirm") =>
            /\ selected \in 0..(Len(disks) - 1)
            /\ config'["disk"] = disks[selected + 1]
            /\ selected' = 1
       /\ (pc = "disk_confirm" /\ pc' = "hostname_input") =>
            /\ selected = 0
            /\ confirm_key'.key = "ENTER"
       /\ Has(config, "disk") => Has(config', "disk") /\ config'["disk"] = config["disk"]
       /\ Has(config, "uefi") => Has(config', "uefi") /\ config'["uefi"] = config["uefi"]
       /\ (~Has(config, "disk") /\ Has(config', "disk")) => pc = "disk_menu"]_vars

UsersRan == dlg.kind = "users" /\ dlg.ran

\* C38: nothing the installer writes to the screen or to standard output
\* depends on the value of the root or user password: two runs that differ
\* only in their (non-empty, confirmed) passwords write the same output.
C38_OutputIndependentOfPasswords ==
    /\ UsersRan => dlg.outA = dlg.outB
    /\ (IsSummary /\ SameSetness) => dlg.outA = dlg.outB

\* ---------------------------------------------------------------- C39
SoftwareOrder ==
    << "install_essential_packages", "install_amd_graphics_drivers", "setup_aur_helper",
       "install_aur_packages", "install_ohmyzsh", "change_shell_to_zsh",
       "enable_services" >>

DotfilesOrder ==
    << "clone_dotfiles", "setup_symbolic_links", "install_nodejs_with_nvm",
       "install_bun" >>

InOrder(f) == f.f \in Range(SoftwareOrder)

InDotfiles(f) == f.f \in Range(DotfilesOrder)

\* The calls made so far follow the list: the i-th call is the i-th entry
\* and every call but the latest returned success.
FollowsList(made, order) ==
    /\ Len(made) <= Len(order)
    /\ \A i \in 1..Len(made) :
         /\ made[i].f = order[i]
         /\ i < Len(made) => made[i].ok

IsUseradd(cmd) ==
    IsChroot(cmd)
    /\ cmd.a[1] = "useradd -m -G wheel,audio,video,optical,storage -s /bin/bash"

IsUserChpasswd(cmd) == IsChroot(cmd) /\ cmd.a[1] = "chpasswd" /\ cmd.a[2] # "root:"

IsYayInstall(cmd) == IsChroot(cmd) /\ cmd.a[1] = "sudo -u yay -S --needed --noconfirm"

\* C39: the seven software steps run in their listed order, each only after
\* the one before it returned success, so install_aur_packages (and its yay
\* command) runs only after setup_aur_helper succeeded; in the dotfiles
\* phase linking runs only after cloning succeeded and the Node.js and Bun
\* steps only after linking succeeded; in setup_users the command setting
\* the user's password runs only directly after the useradd command, which
\* ends setup_users when it fails.
C39_StepsAfterTheirPrerequisites ==
    /\ FollowsList(SelectSeq(calls, InOrder), SoftwareOrder)
    /\ FollowsList(SelectSeq(calls, InDotfiles), DotfilesOrder)
    /\ (\E k \in 1..Len(cmds) : IsYayInstall(cmds[k])) =>
         \E i \in 1..Len(calls) : calls[i].f = "setup_aur_helper" /\ calls[i].ok
    /\ \A k \in 1..Len(cmds) :
         /\ IsUserChpasswd(cmds[k]) => (k > 1 /\ IsUseradd(cmds[k - 1]))
         /\ (IsUseradd(cmds[k]) /\ k < Len(cmds)) => IsUserChpasswd(cmds[k + 1])
    /\ \A i \in 1..Len(calls) :
         (calls[i].f = "setup_users" /\ ~calls[i].ok /\ pc = "error_info"
              /\ IsUseradd(cmds[Len(cmds)]))
           => \A k \in 1..Len(cmds) : ~IsUserChpasswd(cmds[k])

C39_Witness ==
    /\ pc = "exited"
    /\ "Done" \in Range(entered)
    /\ \E i \in 1..Len(calls) : calls[i].f = "setup_users" /\ calls[i].ok
    /\ \E i \in 1..Len(calls) : calls[i].f = "install_aur_packages" /\ calls[i].ok
    /\ \E i \in 1..Len(calls) : calls[i].f = "install_bun" /\ calls[i].ok
====
